---- MODULE Spec2Model ----
(***************************************************************************)
(* State-machine model of the destruction pipeline of src/game.js:        *)
(* Building collapse, sticky bombs, weapon effects in flight, the debris  *)
(* pools with their sleep / eviction bookkeeping, and the suspension      *)
(* bridge with its delayed break cascade, all driven by gameLoop.         *)
(*                                                                         *)
(* Units.  Time is Date.now() in steps of 100 ms.  Health and damage are  *)
(* fixed-point numbers in hundredths of a health point (HP == 100).       *)
(* Positions lie on a line of cells 50 px wide; a building occupies one   *)
(* cell and a distance is a number of cells.  Products that the code      *)
(* computes in floating point are computed here in fixed point, rounded   *)
(* down, in the order in which the code computes them.                    *)
(***************************************************************************)
EXTENDS Integers, Sequences, FiniteSets, TLC

----------------------------------------------------------------------------
(* Bounds of the model.                                                    *)

NumBuildings == 2        \* buildings in a generated city layout
MaxTime == 21            \* last value of Date.now() that is explored
FrameInterval == 3       \* Date.now() advances by this much between frames
MaxRegens == 1           \* number of generateCity() calls after start-up
MaxStickyBombs == 2      \* sticky bombs placed at any one time
MAX_METEORS == 1         \* stands for MAX_METEORS = 5
MAX_BOMBS == 2           \* stands for MAX_BOMBS = 50
MAX_PARTICLES == 3       \* stands for MAX_PARTICLES = 1500
MAX_VOXEL_BITS == 2      \* stands for MAX_VOXEL_BITS = 800
MAX_BRIDGE_DEBRIS == 2   \* stands for MAX_BRIDGE_DEBRIS = 300
MAX_BUILDING_DEBRIS == 2 \* stands for MAX_BUILDING_DEBRIS = 400
MAX_MICRO_DEBRIS == 2    \* stands for MAX_MICRO_DEBRIS = 200
MAX_DUST_PARTICLES == 2  \* stands for MAX_DUST_PARTICLES = 150
MAX_TORNADOS == 1        \* stands for MAX_TORNADOS = 3
LaserSteps == 2          \* steps of 5 px of a laser beam inside its target
MaxLasers == 2           \* laser beams that are alight at once

----------------------------------------------------------------------------
(* Program constants, in model units.                                      *)

HP == 100                       \* one health point, in hundredths
Cells == 0 .. NumBuildings       \* positions a pointer event can name
NULL == -1                      \* JavaScript null for a timestamp or index
LongAgo == -1000                \* the timestamp 0, long before Date.now()

BuildingMaxHealth == 300 * HP        \* 300 + Math.random() * 200
CityLayouts == {10, 13}              \* materialResistance of a layout, in tenths
CollapseDurations == {9}             \* 900 + Math.random() * 700 ms
DebrisSpawnInterval == 1             \* 100 + Math.random() * 80 ms
HitRateLimit == 1                    \* currentTime - lastHitTime > 100
DefaultMaxDistance == 3              \* takeDamage(..., maxDistance = 150)

Min(a, b) == IF a < b THEN a ELSE b
Max(a, b) == IF a > b THEN a ELSE b

Abs(a) == IF a < 0 THEN -a ELSE a

RECURSIVE Pow(_, _)
Pow(b, e) == IF e = 0 THEN 1 ELSE b * Pow(b, e - 1)

\* array.push(x) repeated n times
PushN(arr, x, n) == arr \o [k \in 1 .. n |-> x]

\* for (i = 0; i < count; i++) { if (arr.length >= cap) break; arr.push(x) }
GuardedPush(arr, x, count, cap) ==
    PushN(arr, x, Max(0, Min(count, cap - Len(arr))))

----------------------------------------------------------------------------
(* State.                                                                  *)

VARIABLES
    now,            \* Date.now() as last read by a handler
    cityEpoch,      \* number of generateCity() calls so far
    currentWeapon,  \* selected weapon mode
    currentCityId,  \* 1 or 2; only city 2 has a bridge
    buildings,      \* the global buildings list
    stickyBombs,    \* the global stickyBombs list
    meteors,        \* meteors in flight
    bombs,          \* nuclear bombs falling
    robotMissiles,  \* robot missiles in flight
    lasers,         \* Laser beams of the laser weapon
    tornados,       \* tornados on the ground
    robotHandLasers, \* RobotHandLaser beams of the robot's hand and arms
    ufoHandLasers,  \* UFOLaser beams
    particles,      \* Particle / GlassShard pool
    voxelBits,      \* VoxelBit pool
    bridgeDebris,   \* BridgeDebrisChunk pool
    buildingDebris, \* BuildingDebris pool
    microDebris,    \* MicroDebris pool
    dustParticles,  \* DustParticle pool
    bridge,         \* the Bridge of staticStructures, or NoBridge
    waterWaves,     \* the WaterWaveSystem of the river, or NoWaves
    robot,          \* the robot slot, or NoAgent
    robotControls,  \* held robot keys
    ufo,            \* the UFO slot, or NoAgent
    ufoControls,    \* held UFO keys
    pointerActive,  \* whether the pointer has been seen in robot or UFO mode
    pointerPosition, \* the cell the pointer was last seen at
    targeted,       \* buildings that the last handler's queries accepted
    evicted,        \* fragments that the last handler removed from a pool
    dispatched      \* whether an input event came since the last frame

vars == << now, cityEpoch, currentWeapon, currentCityId, buildings,
           stickyBombs, meteors, bombs, robotMissiles, particles, voxelBits,
           bridgeDebris, buildingDebris, microDebris, dustParticles,
           bridge, waterWaves, robot, robotControls, ufo, ufoControls,
           lasers, tornados, robotHandLasers, ufoHandLasers, pointerActive,
           pointerPosition, targeted, evicted, dispatched >>

NoBridge == [segments |-> << >>]
NoAgent == [present |-> FALSE]
NoWaves == [city |-> NULL]        \* let waterWaves = null

\* The globals a handler reads and writes, threaded through its calls;
\* rnd holds the values that Math.random() and the physics take in it.
World(rnd) ==
    [ t |-> now, weapon |-> currentWeapon,
      buildings |-> buildings, stickyBombs |-> stickyBombs,
      meteors |-> meteors, bombs |-> bombs, robotMissiles |-> robotMissiles,
      particles |-> particles, voxelBits |-> voxelBits,
      bridgeDebris |-> bridgeDebris, buildingDebris |-> buildingDebris,
      microDebris |-> microDebris, dustParticles |-> dustParticles,
      bridge |-> bridge, waterWaves |-> waterWaves,
      robot |-> robot, robotControls |-> robotControls,
      ufo |-> ufo, ufoControls |-> ufoControls,
      lasers |-> lasers, tornados |-> tornados,
      robotHandLasers |-> robotHandLasers, ufoHandLasers |-> ufoHandLasers,
      pointerActive |-> pointerActive, pointerPosition |-> pointerPosition,
      targeted |-> {}, evicted |-> << >>, rnd |-> rnd ]

Commit(W) ==
    /\ now' = W.t
    /\ buildings' = W.buildings
    /\ stickyBombs' = W.stickyBombs
    /\ meteors' = W.meteors
    /\ bombs' = W.bombs
    /\ robotMissiles' = W.robotMissiles
    /\ particles' = W.particles
    /\ voxelBits' = W.voxelBits
    /\ bridgeDebris' = W.bridgeDebris
    /\ buildingDebris' = W.buildingDebris
    /\ microDebris' = W.microDebris
    /\ dustParticles' = W.dustParticles
    /\ bridge' = W.bridge
    /\ waterWaves' = W.waterWaves
    /\ robot' = W.robot
    /\ robotControls' = W.robotControls
    /\ ufo' = W.ufo
    /\ ufoControls' = W.ufoControls
    /\ lasers' = W.lasers
    /\ tornados' = W.tornados
    /\ robotHandLasers' = W.robotHandLasers
    /\ ufoHandLasers' = W.ufoHandLasers
    /\ pointerActive' = W.pointerActive
    /\ pointerPosition' = W.pointerPosition
    /\ targeted' = W.targeted
    /\ evicted' = W.evicted

\* the browser delivers at most one input event ahead of each animation
\* frame
InputEvent ==
    /\ ~dispatched
    /\ dispatched' = TRUE

----------------------------------------------------------------------------
(* Debris fragments.                                                       *)

MicroLifetime == 20      \* 2000 + Math.random() * 2000 ms
DustLifetime == 15       \* 1500 + Math.random() * 1000 ms
DebrisLifetime == 20     \* 2000 + Math.random() * 2000 ms
\* new MicroDebris / DustParticle / BuildingDebris: lifetime-limited
TimedFragment(t, life) == [spawnTime |-> t, lifetime |-> life]

\* new Particle / GlassShard / VoxelBit / BridgeDebrisChunk
SleepFragment ==
    [ onGround |-> FALSE, sleeping |-> FALSE, settledTime |-> NULL,
      doNotDraw |-> FALSE ]

----------------------------------------------------------------------------
(* class Building                                                          *)

BuildingIds == 1 .. NumBuildings

\* constructor(x, y, width, height)
NewBuilding(id, epoch, mh, res, dur) ==
    [ id |-> id, city |-> epoch, x |-> id,
      maxHealth |-> mh, health |-> mh, materialResistance |-> res,
      state |-> "alive", destroyed |-> FALSE,
      collapseStartTime |-> NULL, collapseDuration |-> dur,
      lastDebrisSpawn |-> LongAgo, damageStage |-> 0,
      previousDamageStage |-> 0, lastHitTime |-> LongAgo,
      lastVoxelSpawnTime |-> LongAgo, voxelCutouts |-> 0,
      bursts |-> 0 ]

\* contains(x, y) / intersects(...) on the line of cells
Contains(b, x) == b.x = x

\* a multiplier that grows with the distance:
\* min(1, distance / maxDistance) ^ p applied to v
ApplyRise(v, distance, maxDistance, p) ==
    (v * Pow(Min(maxDistance, distance), p)) \div Pow(maxDistance, p)

\* (1 - min(1, distance / maxDistance)) ^ p applied to v, rounded down
ApplyFalloff(v, distance, maxDistance, p) ==
    (v * Pow(maxDistance - Min(maxDistance, distance), p))
        \div Pow(maxDistance, p)

\* the damage-stage ladder with the thresholds taken as strict bounds
StageOfStrict(health, maxHealth) ==
    IF health <= 0 THEN 3
    ELSE IF health * 5 < maxHealth THEN 3
    ELSE IF health * 2 < maxHealth THEN 2
    ELSE IF health * 4 < maxHealth * 3 THEN 1
    ELSE 0

\* the damage-stage ladder of takeDamage
StageOf(health, maxHealth) ==
    IF health <= 0 THEN 3
    ELSE IF health * 5 <= maxHealth THEN 3
    ELSE IF health * 2 <= maxHealth THEN 2
    ELSE IF health * 4 <= maxHealth * 3 THEN 1
    ELSE 0

spawnMicroDebrisBurst(W, stage) ==
    [W EXCEPT !.microDebris =
        GuardedPush(@, TimedFragment(W.t, MicroLifetime), 4 + stage * 3,
                    MAX_MICRO_DEBRIS)]

spawnDustCloud(W, stage) ==
    [W EXCEPT !.dustParticles =
        GuardedPush(@, TimedFragment(W.t, DustLifetime), 8 + stage * 4,
                    MAX_DUST_PARTICLES)]

spawnDustPuff(W) ==
    [W EXCEPT !.buildingDebris =
        GuardedPush(@, TimedFragment(W.t, DebrisLifetime), 3,
                    MAX_BUILDING_DEBRIS)]

\* a collapse that leaves the sticky bombs of the building attached
KeepBombsOf(list, id) == list

\* stickyBombs.forEach(bomb => { if (bomb.attachedBuildingRef === this) ... })
DetachBombsOf(list, id) ==
    [k \in 1 .. Len(list) |->
        IF list[k].attachedBuildingRef = id
        THEN [list[k] EXCEPT !.attachedTo = NULL,
                              !.attachedBuildingRef = NULL]
        ELSE list[k]]

\* startCollapse as the legacy destroy() behaved: the building is marked
\* collapsed at once
startCollapseInstant(W, i) ==
    LET b == W.buildings[i] IN
    IF b.state # "alive" THEN W
    ELSE [W EXCEPT
            !.buildings[i] = [b EXCEPT !.state = "collapsed",
                                       !.destroyed = TRUE,
                                       !.collapseStartTime = W.t,
                                       !.lastDebrisSpawn = W.t],
            !.stickyBombs = DetachBombsOf(@, b.id)]

startCollapse(W, i) ==
    LET b == W.buildings[i] IN
    IF b.state # "alive" THEN W
    ELSE [W EXCEPT
            !.buildings[i] = [b EXCEPT !.state = "collapsing",
                                       !.collapseStartTime = W.t,
                                       !.lastDebrisSpawn = W.t],
            !.stickyBombs = DetachBombsOf(@, b.id)]

\* takeDamage without the comparison against previousDamageStage
takeDamageEveryHit(W, i, damage, distance, maxDistance) ==
    LET b == W.buildings[i]
        adjustedDamage == (damage * b.materialResistance) \div 10
        finalDamage ==
            IF distance > 0 /\ maxDistance > 0
            THEN ApplyFalloff(adjustedDamage, distance, maxDistance, 3)
            ELSE adjustedDamage
        health1 == b.health - finalDamage
        stage == StageOf(health1, b.maxHealth)
        crossed == stage > 0
        rated == W.t - b.lastHitTime > HitRateLimit
        W1 == IF crossed THEN spawnMicroDebrisBurst(W, stage) ELSE W
        W2 == IF crossed /\ stage >= 2 THEN spawnDustCloud(W1, stage) ELSE W1
        W3 == IF rated THEN spawnDustPuff(W2) ELSE W2
        b1 == [b EXCEPT !.health = IF health1 <= 0 THEN 0 ELSE health1,
                        !.previousDamageStage = b.damageStage,
                        !.damageStage = stage,
                        !.bursts = IF crossed THEN @ + 1 ELSE @,
                        !.lastHitTime = IF rated THEN W.t ELSE @]
        W4 == [W3 EXCEPT !.buildings[i] = b1]
    IN  IF b.destroyed THEN W
        ELSE IF health1 <= 0 THEN startCollapse(W4, i)
        ELSE W4

\* takeDamage without the assignment this.health = 0
takeDamageUnclamped(W, i, damage, distance, maxDistance) ==
    LET b == W.buildings[i]
        adjustedDamage == (damage * b.materialResistance) \div 10
        finalDamage ==
            IF distance > 0 /\ maxDistance > 0
            THEN ApplyFalloff(adjustedDamage, distance, maxDistance, 3)
            ELSE adjustedDamage
        health1 == b.health - finalDamage
        stage == StageOf(health1, b.maxHealth)
        crossed == stage > b.damageStage /\ stage > 0
        rated == W.t - b.lastHitTime > HitRateLimit
        W1 == IF crossed THEN spawnMicroDebrisBurst(W, stage) ELSE W
        W2 == IF crossed /\ stage >= 2 THEN spawnDustCloud(W1, stage) ELSE W1
        W3 == IF rated THEN spawnDustPuff(W2) ELSE W2
        b1 == [b EXCEPT !.health = health1,
                        !.previousDamageStage = b.damageStage,
                        !.damageStage = stage,
                        !.bursts = IF crossed THEN @ + 1 ELSE @,
                        !.lastHitTime = IF rated THEN W.t ELSE @]
        W4 == [W3 EXCEPT !.buildings[i] = b1]
    IN  IF b.destroyed THEN W
        ELSE IF health1 <= 0 THEN startCollapse(W4, i)
        ELSE W4

takeDamage(W, i, damage, distance, maxDistance) ==
    LET b == W.buildings[i]
        adjustedDamage == (damage * b.materialResistance) \div 10
        finalDamage ==
            IF distance > 0 /\ maxDistance > 0
            THEN ApplyFalloff(adjustedDamage, distance, maxDistance, 3)
            ELSE adjustedDamage
        health1 == b.health - finalDamage
        stage == StageOf(health1, b.maxHealth)
        crossed == stage > b.damageStage /\ stage > 0
        rated == W.t - b.lastHitTime > HitRateLimit
        W1 == IF crossed THEN spawnMicroDebrisBurst(W, stage) ELSE W
        W2 == IF crossed /\ stage >= 2 THEN spawnDustCloud(W1, stage) ELSE W1
        W3 == IF rated THEN spawnDustPuff(W2) ELSE W2
        b1 == [b EXCEPT !.health = IF health1 <= 0 THEN 0 ELSE health1,
                        !.previousDamageStage = b.damageStage,
                        !.damageStage = stage,
                        !.bursts = IF crossed THEN @ + 1 ELSE @,
                        !.lastHitTime = IF rated THEN W.t ELSE @]
        W4 == [W3 EXCEPT !.buildings[i] = b1]
    IN  IF b.destroyed THEN W
        ELSE IF health1 <= 0 THEN startCollapse(W4, i)
        ELSE W4

FinalPieceCount == 30    \* basePieceCount of spawnFinalCollapseDebris

\* progress = Math.min(1, elapsed / collapseDuration), in quarters
\* (spawnCollapseDebrisBurst only uses Math.floor(progress * 4))
ProgressQuarters(b, t) ==
    (4 * Min(t - b.collapseStartTime, b.collapseDuration))
        \div b.collapseDuration

spawnCollapseDebrisBurst(W, quarters) ==
    [W EXCEPT !.particles =
        GuardedPush(@, SleepFragment, 2 + quarters, MAX_PARTICLES)]

spawnFinalCollapseDebris(W) ==
    LET availableSlots == MAX_PARTICLES - Len(W.particles)
        actualPieceCount ==
            Min(FinalPieceCount, (availableSlots * 7) \div 10)
    IN  [W EXCEPT !.particles =
            GuardedPush(@, SleepFragment, actualPieceCount, MAX_PARTICLES)]

\* updateCollapse without the assignment this.destroyed = true
updateCollapseUndestroyed(W, i) ==
    LET b == W.buildings[i]
        elapsed == W.t - b.collapseStartTime
        done == elapsed >= b.collapseDuration        \* progress >= 1
        burst == W.t - b.lastDebrisSpawn >= DebrisSpawnInterval
        W1 == IF burst
              THEN spawnCollapseDebrisBurst(W, ProgressQuarters(b, W.t))
              ELSE W
        W2 == IF done THEN spawnFinalCollapseDebris(W1) ELSE W1
        b1 == [b EXCEPT
                 !.damageStage = IF @ < 3 THEN 3 ELSE @,
                 !.lastDebrisSpawn = IF burst THEN W.t ELSE @,
                 !.state = IF done THEN "collapsed" ELSE @]
    IN  IF b.state # "collapsing" THEN W
        ELSE [W2 EXCEPT !.buildings[i] = b1]

updateCollapse(W, i) ==
    LET b == W.buildings[i]
        elapsed == W.t - b.collapseStartTime
        done == elapsed >= b.collapseDuration        \* progress >= 1
        burst == W.t - b.lastDebrisSpawn >= DebrisSpawnInterval
        W1 == IF burst
              THEN spawnCollapseDebrisBurst(W, ProgressQuarters(b, W.t))
              ELSE W
        W2 == IF done THEN spawnFinalCollapseDebris(W1) ELSE W1
        b1 == [b EXCEPT
                 !.damageStage = IF @ < 3 THEN 3 ELSE @,
                 !.lastDebrisSpawn = IF burst THEN W.t ELSE @,
                 !.state = IF done THEN "collapsed" ELSE @,
                 !.destroyed = IF done THEN TRUE ELSE @]
    IN  IF b.state # "collapsing" THEN W
        ELSE [W2 EXCEPT !.buildings[i] = b1]

\* Building.update(); W.rnd.loose says whether Math.random() < 0.02
BuildingUpdate(W, i) ==
    LET b == W.buildings[i] IN
    IF b.state = "collapsing" THEN updateCollapse(W, i)
    ELSE IF b.damageStage >= 2 /\ W.rnd.loose
              /\ Len(W.buildingDebris) < MAX_BUILDING_DEBRIS
         THEN [W EXCEPT !.buildingDebris =
                  Append(@, TimedFragment(W.t, DebrisLifetime))]
         ELSE W

\* buildings = buildings.filter(b => { if collapsed return false;
\*                                     b.update(); return true; })
RECURSIVE UpdateBuildingsFrom(_, _)
UpdateBuildingsFrom(W, i) ==
    IF i > Len(W.buildings) THEN W
    ELSE IF W.buildings[i].state = "collapsed"
         THEN UpdateBuildingsFrom(W, i + 1)
         ELSE UpdateBuildingsFrom(BuildingUpdate(W, i), i + 1)

RECURSIVE KeptBuildings(_, _, _)
KeptBuildings(entry, updated, k) ==
    IF k > Len(entry) THEN << >>
    ELSE IF entry[k].state # "collapsed"
         THEN << updated[k] >> \o KeptBuildings(entry, updated, k + 1)
         ELSE KeptBuildings(entry, updated, k + 1)

\* the filter of gameLoop with every building kept
UpdateBuildingsKeepAll(W) == UpdateBuildingsFrom(W, 1)

UpdateBuildings(W) ==
    LET W1 == UpdateBuildingsFrom(W, 1) IN
    [W1 EXCEPT !.buildings = KeptBuildings(W.buildings, W1.buildings, 1)]

----------------------------------------------------------------------------
(* class BridgeSegment, class Bridge                                       *)

NumSegments == 5         \* segmentCount (8 + Math.floor(Math.random() * 23))
BridgeX0 == 10           \* cell of segment 0: the deck lies apart from
                         \* the buildings, out of reach of blasts aimed at them
SegmentMaxHealth == 100 * HP   \* 80 + Math.random() * 40
TowerHealth == 500 * HP        \* this.towerHealth
TowerTick == 10                \* leftTowerHealth -= 0.1
SwayDuration == 20             \* 2000 + Math.random() * 2000 ms
BreakDelays == {2, 6}          \* 200 + Math.random() * 400 ms
BreakCounts == {3, 4}          \* 3 + Math.floor(Math.random() * 4)
ChunkCount == 8                \* 8 + Math.floor(Math.random() * 8)

SegmentIndices == 0 .. (NumSegments - 1)    \* JavaScript indices

\* new BridgeSegment(...), with the joints the Bridge constructor adds
NewSegment(k) ==
    [ index |-> k, x |-> BridgeX0 + k,
      maxHealth |-> SegmentMaxHealth, health |-> SegmentMaxHealth,
      state |-> "intact", isKinematic |-> TRUE,
      leftJoint |-> IF k > 0 THEN "joined" ELSE "none",
      rightJoint |-> IF k < NumSegments - 1 THEN "joined" ELSE "none",
      leftPull |-> FALSE, rightPull |-> FALSE,
      breaks |-> 0 ]

\* new Bridge(...): one hanger per segment
NewBridge ==
    [ segments |-> [k \in 1 .. NumSegments |-> NewSegment(k - 1)],
      hangers |-> [k \in 1 .. NumSegments |-> [broken |-> FALSE]],
      swayActive |-> FALSE, swayStartTime |-> 0,
      leftTowerHealth |-> TowerHealth, rightTowerHealth |-> TowerHealth,
      cableBreakSequence |-> << >>, destructionSequence |-> << >> ]

HasBridge(W) == Len(W.bridge.segments) > 0

\* this.segments[k] for a JavaScript index k
Seg(W, k) == W.bridge.segments[k + 1]

MiddleIndex == NumSegments \div 2

IsMiddle(k) == Abs(k - MiddleIndex) <= 1

\* BridgeSegment.makeDynamic
makeDynamic(W, k) ==
    IF Seg(W, k).isKinematic
    THEN [W EXCEPT !.bridge.segments[k + 1].isKinematic = FALSE,
                   !.bridge.segments[k + 1].state = "dynamic"]
    ELSE W

\* BridgeSegment.breakJoint('left'), breakJoint('right')
breakJoints(W, k) ==
    [W EXCEPT !.bridge.segments[k + 1].leftJoint =
                  IF @ = "none" THEN @ ELSE "broken",
              !.bridge.segments[k + 1].rightJoint =
                  IF @ = "none" THEN @ ELSE "broken"]

\* the entries of scheduleProgressiveDestruction without the stagger and
\* without the initial delay: every entry is due at the moment of the break
RECURSIVE ScheduledBreaksAtOnce(_, _, _)
ScheduledBreaksAtOnce(W, triggerIndex, i) ==
    IF i >= W.rnd.breakCount THEN << >>
    ELSE LET offset == i - (W.rnd.breakCount \div 2)
             targetIndex == triggerIndex + offset
             rest == ScheduledBreaksAtOnce(W, triggerIndex, i + 1)
         IN  IF /\ targetIndex >= 0
                /\ targetIndex < NumSegments
                /\ Seg(W, targetIndex).state \notin {"broken", "dynamic"}
             THEN << [segment |-> targetIndex, breakTime |-> W.t] >> \o rest
             ELSE rest

\* the entries that scheduleProgressiveDestruction pushes, in push order
RECURSIVE ScheduledBreaks(_, _, _)
ScheduledBreaks(W, triggerIndex, i) ==
    IF i >= W.rnd.breakCount THEN << >>
    ELSE LET offset == i - (W.rnd.breakCount \div 2)
             targetIndex == triggerIndex + offset
             rest == ScheduledBreaks(W, triggerIndex, i + 1)
         IN  IF /\ targetIndex >= 0
                /\ targetIndex < NumSegments
                /\ Seg(W, targetIndex).state \notin {"broken", "dynamic"}
             THEN << [segment |-> targetIndex,
                      breakTime |-> W.t + W.rnd.breakDelay + i] >> \o rest
             ELSE rest

scheduleProgressiveDestruction(W, triggerIndex) ==
    IF ~IsMiddle(triggerIndex) THEN W
    ELSE [W EXCEPT !.bridge.destructionSequence =
              @ \o ScheduledBreaks(W, triggerIndex, 0)]

\* Bridge.contains(x, y) for a point at deck level in cell x: a segment
\* that is kinematic lies at its base position; one under physics has
\* left its cell
bridgeContains(W, x) ==
    \E k \in 1 .. Len(W.bridge.segments) :
        LET s == W.bridge.segments[k] IN
        /\ ~(s.state = "broken" /\ s.isKinematic)
        /\ s.isKinematic
        /\ s.x = x

\* Bridge.onSegmentBroken
onSegmentBroken(W, k) ==
    LET W1 == IF IsMiddle(k) /\ ~W.bridge.swayActive
              THEN [W EXCEPT !.bridge.swayActive = TRUE,
                             !.bridge.swayStartTime = W.t]
              ELSE W
        W2 == breakJoints(makeDynamic(W1, k), k)
        W3 == scheduleProgressiveDestruction(W2, k)
    IN  [W3 EXCEPT !.bridge.segments[k + 1].breaks = @ + 1,
                   !.bridgeDebris =
                       GuardedPush(@, SleepFragment, ChunkCount,
                                   MAX_BRIDGE_DEBRIS)]

\* takeDamage with the damage taken off the full health of the segment
segmentTakeDamageFromFull(W, k, damage) ==
    LET s == Seg(W, k)
        health1 == s.maxHealth - damage
    IN  IF s.state \in {"broken", "dynamic"} THEN W
        ELSE IF health1 <= 0
             THEN onSegmentBroken(
                      [W EXCEPT !.bridge.segments[k + 1].health = 0,
                                !.bridge.segments[k + 1].state = "broken"],
                      k)
        ELSE IF health1 * 2 < s.maxHealth
             THEN [W EXCEPT !.bridge.segments[k + 1].health = health1,
                            !.bridge.segments[k + 1].state = "damaged"]
        ELSE [W EXCEPT !.bridge.segments[k + 1].health = health1]

\* takeDamage without the early return for a segment out of service: a
\* hit on such a segment runs the health ladder again
segmentTakeDamageRevive(W, k, damage) ==
    LET s == Seg(W, k)
        health1 == s.health - damage
    IN  IF s.health > 0 /\ health1 <= 0
        THEN onSegmentBroken(
                 [W EXCEPT !.bridge.segments[k + 1].health = 0,
                           !.bridge.segments[k + 1].state = "broken"],
                 k)
        ELSE IF health1 * 2 < s.maxHealth
             THEN [W EXCEPT !.bridge.segments[k + 1].health = Max(0, health1),
                            !.bridge.segments[k + 1].state = "damaged"]
        ELSE [W EXCEPT !.bridge.segments[k + 1].health = health1]

\* BridgeSegment.takeDamage
segmentTakeDamage(W, k, damage) ==
    LET s == Seg(W, k)
        health1 == s.health - damage
    IN  IF s.state \in {"broken", "dynamic"} THEN W
        ELSE IF health1 <= 0
             THEN onSegmentBroken(
                      [W EXCEPT !.bridge.segments[k + 1].health = 0,
                                !.bridge.segments[k + 1].state = "broken"],
                      k)
        ELSE IF health1 * 2 < s.maxHealth
             THEN [W EXCEPT !.bridge.segments[k + 1].health = health1,
                            !.bridge.segments[k + 1].state = "damaged"]
        ELSE [W EXCEPT !.bridge.segments[k + 1].health = health1]

CableDelays == {2}             \* 200 + Math.random() * 400 ms
CableRadii == {3}              \* 3 + Math.floor(Math.random() * 4)
LeftTowerIndex == NumSegments \div 4          \* Math.floor(length * 0.25)
RightTowerIndex == (NumSegments * 3) \div 4   \* Math.floor(length * 0.75)

\* the entries that scheduleCableBreakSequence pushes, in push order
RECURSIVE ScheduledCables(_, _, _)
ScheduledCables(W, triggerIndex, i) ==
    IF i > Min(NumSegments - 1, triggerIndex + W.rnd.cableRadius)
    THEN << >>
    ELSE LET rest == ScheduledCables(W, triggerIndex, i + 1) IN
         IF ~W.bridge.hangers[i + 1].broken /\ i # triggerIndex
         THEN << [hanger |-> i,
                  breakTime |-> W.t + W.rnd.cableDelay
                                    + Abs(i - triggerIndex)] >> \o rest
         ELSE rest

scheduleCableBreakSequence(W, triggerIndex) ==
    [W EXCEPT !.bridge.cableBreakSequence =
        @ \o ScheduledCables(W, triggerIndex,
                             Max(0, triggerIndex - W.rnd.cableRadius))]

\* Bridge.onCableBroken
onCableBroken(W, h) ==
    LET W1 == IF ~W.bridge.swayActive
              THEN [W EXCEPT !.bridge.swayActive = TRUE,
                             !.bridge.swayStartTime = W.t]
              ELSE W
    IN  scheduleCableBreakSequence(W1, h)

\* Bridge.takeDamage(intensity, damageX, damageY, damageRadius): segments
RECURSIVE DamageSegmentsFrom(_, _, _, _, _)
DamageSegmentsFrom(W, k, intensity, x, radius) ==
    IF k >= NumSegments THEN W
    ELSE LET s == Seg(W, k)
             distance == Abs(s.x - x)
         IN  IF s.state # "broken" /\ distance < radius
             THEN DamageSegmentsFrom(
                      segmentTakeDamage(
                          W, k, ApplyFalloff(intensity, distance, radius, 2)),
                      k + 1, intensity, x, radius)
             ELSE DamageSegmentsFrom(W, k + 1, intensity, x, radius)

TowerDamage(intensity, towerIndex, x, radius) ==
    LET distance == Abs(BridgeX0 + towerIndex - x) IN
    IF distance < radius
    THEN ApplyFalloff(intensity, distance, radius, 2) \div 10
    ELSE 0

bridgeTakeDamage(W, intensity, x, radius) ==
    LET W1 == DamageSegmentsFrom(W, 0, intensity, x, radius) IN
    [W1 EXCEPT
        !.bridge.leftTowerHealth =
            @ - TowerDamage(intensity, LeftTowerIndex, x, radius),
        !.bridge.rightTowerHealth =
            @ - TowerDamage(intensity, RightTowerIndex, x, radius)]

\* if (currentCityId === 2) staticStructures.forEach(... structure.takeDamage)
DamageBridge(W, intensity, x, radius) ==
    IF HasBridge(W) THEN bridgeTakeDamage(W, intensity, x, radius) ELSE W

\* Bridge.update, first filter: this.cableBreakSequence.filter(...)
\* The callback pushes to the array being filtered; the result of filter
\* replaces that array, so only the entries the callback keeps survive.
RECURSIVE ProcessCables(_, _, _, _)
ProcessCables(W, queue, i, kept) ==
    IF i > Len(queue)
    THEN [W EXCEPT !.bridge.cableBreakSequence = kept]
    ELSE LET item == queue[i] IN
         IF W.t >= item.breakTime /\ ~W.bridge.hangers[item.hanger + 1].broken
         THEN LET W1 == [W EXCEPT
                           !.bridge.hangers[item.hanger + 1].broken = TRUE]
                  W2 == onCableBroken(W1, item.hanger)
                  W3 == [W2 EXCEPT !.bridgeDebris =
                            GuardedPush(@, SleepFragment, 1,
                                        MAX_BRIDGE_DEBRIS)]
              IN  ProcessCables(W3, queue, i + 1, kept)
         ELSE ProcessCables(W, queue, i + 1, Append(kept, item))

\* Bridge.update, second filter: this.destructionSequence.filter(...)
RECURSIVE ProcessDestruction(_, _, _, _)
ProcessDestruction(W, queue, i, kept) ==
    IF i > Len(queue)
    THEN [W EXCEPT !.bridge.destructionSequence = kept]
    ELSE LET item == queue[i] IN
         IF W.t >= item.breakTime /\ Seg(W, item.segment).state # "broken"
         THEN LET W1 == [W EXCEPT
                           !.bridge.segments[item.segment + 1].health = 0,
                           !.bridge.segments[item.segment + 1].state =
                               "broken"]
                  W2 == onSegmentBroken(makeDynamic(W1, item.segment),
                                        item.segment)
              IN  ProcessDestruction(W2, queue, i + 1, kept)
         ELSE ProcessDestruction(W, queue, i + 1, Append(kept, item))

\* BridgeSegment.update -> applyCableForces: the cable of a segment that is
\* under physics may exceed cableBreakForce; snap names that cable, if any
SnapCable(W) ==
    LET h == W.rnd.snap IN
    IF h = NULL THEN W
    ELSE LET s == Seg(W, h) IN
         IF ~s.isKinematic /\ s.state # "broken"
               /\ ~W.bridge.hangers[h + 1].broken
         THEN onCableBroken(
                  [W EXCEPT !.bridge.hangers[h + 1].broken = TRUE], h)
         ELSE W

UpdateSway(W) ==
    IF W.bridge.swayActive /\ W.t - W.bridge.swayStartTime >= SwayDuration
    THEN [W EXCEPT !.bridge.swayActive = FALSE]
    ELSE W

TowerDecay(W, towerIndex, health) ==
    IF Seg(W, towerIndex).state \in {"broken", "dynamic"}
    THEN Max(0, health - TowerTick)
    ELSE health

UpdateTowers(W) ==
    [W EXCEPT
        !.bridge.leftTowerHealth = TowerDecay(W, LeftTowerIndex, @),
        !.bridge.rightTowerHealth = TowerDecay(W, RightTowerIndex, @)]

\* the test of applyJointForces for the joint of segment s towards its
\* neighbour n: the spring of the joint acts on the velocity of s
JointPulls(s, joint, n) ==
    /\ ~(s.isKinematic \/ s.state = "broken")
    /\ joint # "none"
    /\ n.state # "broken"

\* BridgeSegment.update -> applyJointForces for every segment: leftPull and
\* rightPull record whether the update has applied the spring force of the
\* joint on that side
applyJointForces(W) ==
    [W EXCEPT !.bridge.segments =
        [k \in 1 .. Len(@) |->
            [@[k] EXCEPT
                !.leftPull = /\ k > 1
                             /\ JointPulls(W.bridge.segments[k],
                                           W.bridge.segments[k].leftJoint,
                                           W.bridge.segments[k - 1]),
                !.rightPull = /\ k < Len(W.bridge.segments)
                              /\ JointPulls(W.bridge.segments[k],
                                            W.bridge.segments[k].rightJoint,
                                            W.bridge.segments[k + 1])]]]

\* Bridge.update
bridgeUpdate(W) ==
    LET W1 == ProcessCables(W, W.bridge.cableBreakSequence, 1, << >>)
        W2 == ProcessDestruction(W1, W1.bridge.destructionSequence, 1, << >>)
        W3 == SnapCable(applyJointForces(W2))
    IN  UpdateTowers(UpdateSway(W3))

----------------------------------------------------------------------------
(* Area damage against the buildings list.                                 *)

\* the body shared by Meteor.explode, NuclearBomb.explode and
\* RobotMissile.explode:  buildings.forEach(building => {
\*     if (building.state === 'collapsed') return;
\*     if (distance < damageRadius) {
\*         building.takeDamage(baseDamage * falloff, distance, damageRadius)
\*     } })
\* the blast loop without the test for collapsed buildings
RECURSIVE BlastAllBuildingsFrom(_, _, _, _, _)
BlastAllBuildingsFrom(W, i, x, damageRadius, baseDamage) ==
    IF i > Len(W.buildings) THEN W
    ELSE LET b == W.buildings[i]
             distance == Abs(b.x - x)
         IN  IF distance < damageRadius
             THEN BlastAllBuildingsFrom(
                      [takeDamage(W, i,
                                  ApplyFalloff(baseDamage, distance,
                                               damageRadius, 3),
                                  distance, damageRadius)
                          EXCEPT !.targeted = @ \cup {b.id}],
                      i + 1, x, damageRadius, baseDamage)
             ELSE BlastAllBuildingsFrom(W, i + 1, x, damageRadius, baseDamage)

RECURSIVE BlastBuildingsFrom(_, _, _, _, _)
BlastBuildingsFrom(W, i, x, damageRadius, baseDamage) ==
    IF i > Len(W.buildings) THEN W
    ELSE LET b == W.buildings[i]
             distance == Abs(b.x - x)
         IN  IF b.state # "collapsed" /\ distance < damageRadius
             THEN BlastBuildingsFrom(
                      [takeDamage(W, i,
                                  ApplyFalloff(baseDamage, distance,
                                               damageRadius, 3),
                                  distance, damageRadius)
                          EXCEPT !.targeted = @ \cup {b.id}],
                      i + 1, x, damageRadius, baseDamage)
             ELSE BlastBuildingsFrom(W, i + 1, x, damageRadius, baseDamage)

----------------------------------------------------------------------------
(* class Meteor                                                            *)

MeteorTravelTime == 4        \* Math.max(400, Math.min(900, distance * 1.2))
MeteorDamageRadius == 3      \* damageRadius = 150
MeteorBaseDamage == 80 * HP  \* baseDamage = 80
MeteorBridgeDamage == 25 * HP

NewMeteor(t, x) == [startTime |-> t, targetX |-> x]

meteorExplode(W, m) ==
    DamageBridge(
        BlastBuildingsFrom(W, 1, m.targetX, MeteorDamageRadius,
                           MeteorBaseDamage),
        MeteorBridgeDamage, m.targetX, MeteorDamageRadius)

MeteorArrived(W, m) == W.t - m.startTime >= MeteorTravelTime

\* meteors = meteors.filter(meteor => { meteor.update();
\*                                      return !meteor.exploded; })
RECURSIVE UpdateMeteorsFrom(_, _, _, _)
UpdateMeteorsFrom(W, queue, i, kept) ==
    IF i > Len(queue) THEN [W EXCEPT !.meteors = kept]
    ELSE IF MeteorArrived(W, queue[i])
         THEN UpdateMeteorsFrom(meteorExplode(W, queue[i]), queue, i + 1,
                                kept)
         ELSE UpdateMeteorsFrom(W, queue, i + 1, Append(kept, queue[i]))

UpdateMeteors(W) == UpdateMeteorsFrom(W, W.meteors, 1, << >>)

----------------------------------------------------------------------------
(* class RobotMissile                                                      *)

MissileMaxLifetime == 3      \* maxLifetime = 5000 ms at 16 ms a frame
MissileDamageRadius == 2     \* damageRadius = 100
MissileBaseDamage == 70 * HP
SparkCount == 2              \* the 12 sparks of RobotMissile.explode

NewMissile == [lifetime |-> 0]

missileExplode(W, x) ==
    LET W1 == BlastBuildingsFrom(W, 1, x, MissileDamageRadius,
                                 MissileBaseDamage)
        W2 == DamageBridge(W1, MissileBaseDamage, x, MissileDamageRadius)
    IN  [W2 EXCEPT !.particles = PushN(@, SleepFragment, SparkCount)]

\* the building that the missile at cell x has run into, if any
RECURSIVE MissileContact(_, _, _)
MissileContact(W, i, x) ==
    IF i > Len(W.buildings) THEN 0
    ELSE IF W.buildings[i].state # "collapsed" /\ Contains(W.buildings[i], x)
         THEN i
         ELSE MissileContact(W, i + 1, x)

\* RobotMissile.update for one missile; W.rnd.missileX is the cell it has
\* flown to and W.rnd.missileLow says whether it is down at ground level
\* there.  Returns the world and whether the missile stays active.
MissileUpdate(W, m) ==
    LET hit == MissileContact(W, 1, W.rnd.missileX)
        lifetime == m.lifetime + 1
    IN  IF hit > 0
        THEN [w |-> missileExplode(
                        [W EXCEPT !.targeted =
                            @ \cup {W.buildings[hit].id}],
                        W.rnd.missileX),
              keep |-> << >>]
        ELSE IF \/ bridgeContains(W, W.rnd.missileX)
                \/ W.rnd.missileLow
                \/ lifetime >= MissileMaxLifetime
        THEN [w |-> missileExplode(W, W.rnd.missileX), keep |-> << >>]
        ELSE [w |-> W, keep |-> << [m EXCEPT !.lifetime = lifetime] >>]

RECURSIVE UpdateMissilesFrom(_, _, _, _)
UpdateMissilesFrom(W, queue, i, kept) ==
    IF i > Len(queue) THEN [W EXCEPT !.robotMissiles = kept]
    ELSE LET r == MissileUpdate(W, queue[i]) IN
         UpdateMissilesFrom(r.w, queue, i + 1, kept \o r.keep)

UpdateMissiles(W) == UpdateMissilesFrom(W, W.robotMissiles, 1, << >>)

----------------------------------------------------------------------------
(* class StickyBomb, placeStickyBomb, detonateAllStickyBombs               *)

MAX_STICKY_BOMBS_ACTIVE == 1   \* stands for MAX_STICKY_BOMBS_ACTIVE = 200
StickyDamageRadius == 3          \* Math.min(width, height) * 0.25
StickyBaseDamage == 60 * HP      \* baseDamage = 60
MaxDamagePerBomb == 50 * HP      \* maxDamagePerBomb = 50
MaxTotalDamage == 85 * HP        \* maxTotalDamage = 85
StickyBridgeDamage == 60 * HP    \* structure.takeDamage(60, ...)

\* new StickyBomb(x, y, buildingIndex, offsetX, offsetY, buildingRef);
\* attachedTo is a JavaScript index, attachedBuildingRef the building
NewStickyBomb(x, index, ref) ==
    [ x |-> x, attachedTo |-> index, attachedBuildingRef |-> ref,
      isArmed |-> TRUE, active |-> TRUE, onGround |-> FALSE ]

\* buildings.includes(building) && building.state !== 'collapsed'
RefStanding(W, ref) ==
    \E k \in 1 .. Len(W.buildings) :
        W.buildings[k].id = ref /\ W.buildings[k].state # "collapsed"

\* StickyBomb.update
stickyUpdate(W, bomb) ==
    LET b1 == IF bomb.attachedBuildingRef # NULL
              THEN IF RefStanding(W, bomb.attachedBuildingRef)
                   THEN [bomb EXCEPT !.onGround = FALSE]
                   ELSE [bomb EXCEPT !.attachedTo = NULL,
                                     !.attachedBuildingRef = NULL]
              ELSE IF bomb.attachedTo # NULL
                        /\ bomb.attachedTo < Len(W.buildings)
              THEN IF W.buildings[bomb.attachedTo + 1].state # "collapsed"
                   THEN [bomb EXCEPT
                            !.attachedBuildingRef =
                                W.buildings[bomb.attachedTo + 1].id,
                            !.onGround = FALSE]
                   ELSE [bomb EXCEPT !.attachedTo = NULL]
              ELSE bomb
        b2 == IF b1.attachedTo = NULL THEN [b1 EXCEPT !.onGround = TRUE]
              ELSE b1
    IN  IF ~bomb.active THEN bomb ELSE b2

\* stickyBombs = stickyBombs.filter(bomb => {
\*     if (bomb.active) bomb.update(); return bomb.isArmed; })
UpdateStickyBombs(W) ==
    [W EXCEPT !.stickyBombs =
        SelectSeq([k \in 1 .. Len(W.stickyBombs) |->
                      stickyUpdate(W, W.stickyBombs[k])],
                  LAMBDA bomb : bomb.isArmed)]

\* the performance policy of placeStickyBomb: the oldest active bombs,
\* activeBombs - MAX + 1 of them, are marked inactive
RECURSIVE Deactivate(_, _, _)
Deactivate(list, k, n) ==
    IF k > Len(list) \/ n = 0 THEN list
    ELSE IF list[k].active
         THEN Deactivate([list EXCEPT ![k].active = FALSE], k + 1, n - 1)
         ELSE Deactivate(list, k + 1, n)

ActiveBombs(list) ==
    Cardinality({k \in 1 .. Len(list) : list[k].active})

\* the first building of the list that contains the point and has not
\* collapsed, as a list position, or 0
RECURSIVE BuildingAt(_, _, _)
BuildingAt(W, i, x) ==
    IF i > Len(W.buildings) THEN 0
    ELSE IF W.buildings[i].state # "collapsed" /\ Contains(W.buildings[i], x)
         THEN i
         ELSE BuildingAt(W, i + 1, x)

placeStickyBomb(W, x) ==
    LET activeBombs == ActiveBombs(W.stickyBombs)
        bombs1 == IF activeBombs >= MAX_STICKY_BOMBS_ACTIVE
                  THEN Deactivate(W.stickyBombs, 1,
                                  activeBombs - MAX_STICKY_BOMBS_ACTIVE + 1)
                  ELSE W.stickyBombs
        i == BuildingAt(W, 1, x)
    IN  IF i = 0
        THEN [W EXCEPT !.stickyBombs =
                 Append(bombs1, NewStickyBomb(x, NULL, NULL))]
        ELSE [W EXCEPT
                 !.stickyBombs =
                     Append(bombs1,
                            NewStickyBomb(x, i - 1, W.buildings[i].id)),
                 !.targeted = @ \cup {W.buildings[i].id}]

\* first pass of detonateAllStickyBombs: the damage that the armed bombs
\* accumulate on building i, each bomb capped at maxDamagePerBomb
RECURSIVE AccumulatedDamage(_, _, _)
AccumulatedDamage(W, i, k) ==
    IF k > Len(W.stickyBombs) THEN 0
    ELSE LET bomb == W.stickyBombs[k]
             distance == Abs(W.buildings[i].x - bomb.x)
         IN  (IF bomb.isArmed /\ distance < StickyDamageRadius
              THEN Min(ApplyFalloff(StickyBaseDamage, distance,
                                    StickyDamageRadius, 3),
                       MaxDamagePerBomb)
              ELSE 0)
             + AccumulatedDamage(W, i, k + 1)

\* whether the first pass makes an entry for building i in buildingDamageMap
InDamageMap(W, i) ==
    /\ W.buildings[i].state # "collapsed"
    /\ \E k \in 1 .. Len(W.stickyBombs) :
           /\ W.stickyBombs[k].isArmed
           /\ Abs(W.buildings[i].x - W.stickyBombs[k].x) < StickyDamageRadius

\* third pass: buildingDamageMap.forEach(...), over the first-pass totals
RECURSIVE ApplyDamageMap(_, _, _)
ApplyDamageMap(W, W0, i) ==
    IF i > Len(W.buildings) THEN W
    ELSE IF InDamageMap(W0, i) /\ W.buildings[i].state # "collapsed"
         THEN ApplyDamageMap(
                  [takeDamage(W, i,
                              Min(AccumulatedDamage(W0, i, 1),
                                  MaxTotalDamage),
                              0, DefaultMaxDistance)
                      EXCEPT !.targeted = @ \cup {W.buildings[i].id}],
                  W0, i + 1)
         ELSE ApplyDamageMap(W, W0, i + 1)

\* the bridge loop of detonateAllStickyBombs, which runs after the second
\* pass has disarmed every bomb
RECURSIVE DetonateOnBridge(_, _, _)
DetonateOnBridge(W, list, k) ==
    IF k > Len(list) THEN W
    ELSE IF list[k].isArmed
         THEN DetonateOnBridge(
                  DamageBridge(W, StickyBridgeDamage, list[k].x,
                               StickyDamageRadius),
                  list, k + 1)
         ELSE DetonateOnBridge(W, list, k + 1)

detonateAllStickyBombs(W) ==
    LET disarmed == [k \in 1 .. Len(W.stickyBombs) |->
                        [W.stickyBombs[k] EXCEPT !.isArmed = FALSE,
                                                 !.active = TRUE]]
        W1 == ApplyDamageMap(W, W, 1)
        W2 == DetonateOnBridge(W1, disarmed, 1)
    IN  [W2 EXCEPT !.stickyBombs = << >>]

----------------------------------------------------------------------------
(* The debris pools in gameLoop.                                           *)

SLEEP_DELAY == 50        \* SLEEP_DELAY = VOXEL_SLEEP_DELAY = 5000 ms

\* Particle.update / VoxelBit.update / BridgeDebrisChunk.update for a
\* fragment that is not asleep: it falls until it comes to rest on the
\* ground, then its velocities decay and settledTime is recorded; aloft
\* says whether it is still in the air after this frame, offscreen whether
\* it has left the screen by more than 200 px instead
fragmentUpdate(f, t, offscreen, aloft) ==
    IF f.sleeping THEN f
    ELSE IF f.onGround
         THEN [f EXCEPT !.settledTime = IF @ = NULL THEN t ELSE @]
    ELSE IF offscreen
         THEN [f EXCEPT !.sleeping = TRUE, !.onGround = TRUE]
    ELSE IF aloft THEN f
    ELSE [f EXCEPT !.onGround = TRUE]

\* the sleep check that gameLoop makes before it updates a fragment
sleepCheck(f, t) ==
    IF f.onGround /\ f.settledTime # NULL /\ ~f.sleeping
          /\ t - f.settledTime > SLEEP_DELAY
    THEN [f EXCEPT !.sleeping = TRUE]
    ELSE f

\* the sleeping fragments in the order of the array, as the filter leaves
\* them when the sort is left out
RECURSIVE UnsortedSleepers(_, _)
UnsortedSleepers(pool, todo) ==
    IF todo = {} THEN << >>
    ELSE LET first == CHOOSE k \in todo : \A j \in todo : k <= j
         IN  << first >> \o UnsortedSleepers(pool, todo \ {first})

\* positions of pool.filter(p => p.sleeping && p.settledTime !== null)
\* after sort((a, b) => a.settledTime - b.settledTime), a stable sort
RECURSIVE SortedSleepers(_, _)
SortedSleepers(pool, todo) ==
    IF todo = {} THEN << >>
    ELSE LET first == CHOOSE k \in todo :
                 \A j \in todo :
                     \/ pool[k].settledTime < pool[j].settledTime
                     \/ pool[k].settledTime = pool[j].settledTime /\ k <= j
         IN  << first >> \o SortedSleepers(pool, todo \ {first})

Sleepers(pool) ==
    {k \in 1 .. Len(pool) : pool[k].sleeping /\ pool[k].settledTime # NULL}

\* if (pool.length > cap) { ... sleeping[i].doNotDraw = true ... }
\* returns the pool and, for the record, the fragments that this marking
\* has taken out of the drawn population (marked) and those it has left
\* in it (spared)
MarkOldestSleeping(name, pool, cap) ==
    LET sorted == SortedSleepers(pool, Sleepers(pool))
        excessCount == Len(pool) - cap
        n == Min(excessCount, Len(sorted))
        marked == {sorted[k] : k \in 1 .. n}
        result == [k \in 1 .. Len(pool) |->
                      IF k \in marked
                      THEN [pool[k] EXCEPT !.doNotDraw = TRUE]
                      ELSE pool[k]]
        newly == SelectSeq([k \in 1 .. Len(pool) |-> k],
                           LAMBDA k : k \in marked /\ ~pool[k].doNotDraw)
    IN  IF Len(pool) > cap
        THEN [ pool |-> result,
               log |-> << [ pool |-> name,
                            marked |-> [j \in 1 .. Len(newly) |->
                                           pool[newly[j]]],
                            spared |-> SelectSeq(result,
                                           LAMBDA f : ~f.doNotDraw) ] >> ]
        ELSE [pool |-> pool, log |-> << >>]

\* the loop over particles (or voxelBits) followed by the over-cap marking
updateSleepPool(name, pool, cap, t, offscreen, aloft) ==
    MarkOldestSleeping(
        name,
        [k \in 1 .. Len(pool) |->
            fragmentUpdate(sleepCheck(pool[k], t), t, offscreen,
                           k \in aloft)],
        cap)

UpdateParticles(W) ==
    LET r == updateSleepPool("particles", W.particles, MAX_PARTICLES, W.t,
                             W.rnd.offscreen, W.rnd.aloft)
    IN  [W EXCEPT !.particles = r.pool, !.evicted = @ \o r.log]

UpdateVoxelBits(W) ==
    LET r == updateSleepPool("voxelBits", W.voxelBits, MAX_VOXEL_BITS, W.t,
                             W.rnd.offscreen, W.rnd.aloft)
    IN  [W EXCEPT !.voxelBits = r.pool, !.evicted = @ \o r.log]

\* bridgeDebris = bridgeDebris.filter(d => { d.update();
\*     return !d.sleeping || !d.doNotDraw; }) and the marking that follows
UpdateBridgeDebris(W) ==
    LET updated == [k \in 1 .. Len(W.bridgeDebris) |->
                       fragmentUpdate(W.bridgeDebris[k], W.t,
                                      W.rnd.offscreen, k \in W.rnd.aloft)]
        kept == SelectSeq(updated, LAMBDA d : ~d.sleeping \/ ~d.doNotDraw)
        r == MarkOldestSleeping("bridgeDebris", kept, MAX_BRIDGE_DEBRIS)
    IN  [W EXCEPT !.bridgeDebris = r.pool, !.evicted = @ \o r.log]

\* MicroDebris.update / DustParticle.update / BuildingDebris.update return
\* whether the fragment is within its lifetime
TimedAlive(f, t) == ~(t - f.spawnTime > f.lifetime)

\* pool = pool.filter(f => f.update());
\* if (pool.length > cap) pool.splice(0, pool.length - cap)
updateTimedPool(name, pool, cap, t) ==
    LET kept == SelectSeq(pool, LAMBDA f : TimedAlive(f, t))
        excess == Len(kept) - cap
    IN  IF excess > 0
        THEN [ pool |-> SubSeq(kept, excess + 1, Len(kept)),
               log |-> << [ pool |-> name,
                            marked |-> [k \in 1 .. excess |-> SleepFragment],
                            spared |-> << >> ] >> ]
        ELSE [pool |-> kept, log |-> << >>]

UpdateTimedPools(W) ==
    LET b == updateTimedPool("buildingDebris", W.buildingDebris,
                             MAX_BUILDING_DEBRIS, W.t)
        m == updateTimedPool("microDebris", W.microDebris,
                             MAX_MICRO_DEBRIS, W.t)
        d == updateTimedPool("dustParticles", W.dustParticles,
                             MAX_DUST_PARTICLES, W.t)
    IN  [W EXCEPT !.buildingDebris = b.pool, !.microDebris = m.pool,
                  !.dustParticles = d.pool,
                  !.evicted = @ \o b.log \o m.log \o d.log]

----------------------------------------------------------------------------
(* class NuclearBomb                                                       *)

NukeFallFrames == 1          \* frames a bomb falls before it strikes
NukeDamageRadius == 4        \* damageRadius = 200
NukeBaseDamage == 120 * HP   \* baseDamage = 120
NukeBridgeDamage == 30 * HP  \* structure.takeDamage(30, ...)
NukeBombCount == 2           \* Math.floor(Math.random() * 5) + 6

NewBomb(x) == [x |-> x, fall |-> NukeFallFrames]

\* NuclearBomb.explode with the base damage and the radius of a meteor
nukeExplodeAsMeteor(W, bomb) ==
    DamageBridge(
        BlastBuildingsFrom(W, 1, bomb.x, MeteorDamageRadius, MeteorBaseDamage),
        NukeBridgeDamage, bomb.x, MeteorDamageRadius)

nukeExplode(W, bomb) ==
    DamageBridge(
        BlastBuildingsFrom(W, 1, bomb.x, NukeDamageRadius, NukeBaseDamage),
        NukeBridgeDamage, bomb.x, NukeDamageRadius)

\* bombs = bombs.filter(bomb => { bomb.update(); return !bomb.exploded; })
RECURSIVE UpdateBombsFrom(_, _, _, _)
UpdateBombsFrom(W, queue, i, kept) ==
    IF i > Len(queue) THEN [W EXCEPT !.bombs = kept]
    ELSE IF queue[i].fall = 0
         THEN UpdateBombsFrom(
                  LET hit == BuildingAt(W, 1, queue[i].x) IN
                  nukeExplode(
                      IF hit > 0
                      THEN [W EXCEPT !.targeted =
                               @ \cup {W.buildings[hit].id}]
                      ELSE W,
                      queue[i]),
                  queue, i + 1, kept)
         ELSE UpdateBombsFrom(W, queue, i + 1,
                              Append(kept, [queue[i] EXCEPT !.fall = @ - 1]))

UpdateBombs(W) == UpdateBombsFrom(W, W.bombs, 1, << >>)

\* createNukeStrike(x, y): the bombs come down on the cell of the click
createNukeStrike(W, x) ==
    [W EXCEPT !.bombs = GuardedPush(@, NewBomb(x), NukeBombCount, MAX_BOMBS)]

----------------------------------------------------------------------------
(* class Laser, class Tornado, class RobotHandLaser, class UFOLaser.  A     *)
(* beam or a tornado stores the time of its creation and is inactive from  *)
(* the first update that finds its duration gone.                          *)

LaserDuration == 3           \* this.duration = 300
LaserDamage == 2 * HP        \* building.takeDamage(2), segment.takeDamage(2)
MinTornadoDuration == 30     \* Math.random() * 2000 + 3000 ms
MaxTornadoDuration == 50
TornadoDurations == {MinTornadoDuration, MaxTornadoDuration}
ShortFrame == 1              \* a frame that follows the last one at once
EffectCells == {1}           \* the cell that the pointer is aimed at
TornadoDamageRadius == 2     \* damageRadius = 100
TornadoDamage == 3 * HP      \* falloff * 3
HandLaserDuration == 2       \* RobotHandLaser: this.duration = 200
HandLaserFrameDamage == 5    \* (15 / 60) * (200 / 1000) = 0.05
UfoLaserDuration == 2        \* UFOLaser: this.duration = 200
UfoLaserFrameDamage == 6     \* (20 / 60) * (200 / 1000), scout multiplier 1.0
BeamLength == 20             \* this.length: from the hand to the screen edge
MaxLaserEnergy == 100        \* maxLaserEnergy = 100
LaserEnergyDrainRate == 8    \* laserEnergyDrainRate = 8
LaserEnergyRegenRate == 2    \* laserEnergyRegenRate = 2
LaserFireRate == 1           \* laserFireRate = 66 ms
UfoLaserFireRate == 2        \* laserFireRate = 125 ms
ArmFireInterval == 2         \* currentTime - this.rightArmCooldown > 200
ArmFireRate == 12            \* armFireRate = 12

\* new Laser(x)
NewLaser(t, x) == [x |-> x, startTime |-> t]

\* new Tornado(x, groundY); duration is the value drawn for it
NewTornado(t, x, duration) == [x |-> x, startTime |-> t, duration |-> duration]

\* new RobotHandLaser(startX, startY, targetX, targetY) and
\* new UFOLaser(startX, startY, targetX, targetY)
NewBeam(t, startX, targetX) ==
    [startX |-> startX, targetX |-> targetX, startTime |-> t]

\* n calls of building.takeDamage(damage), each behind the test
\* building.state !== 'collapsed'
RECURSIVE RepeatDamage(_, _, _, _)
RepeatDamage(W, i, damage, n) ==
    IF n = 0 \/ W.buildings[i].state = "collapsed" THEN W
    ELSE RepeatDamage(takeDamage(W, i, damage, 0, 0), i, damage, n - 1)

\* n calls of segment.takeDamage(damage), each behind the test
\* segment.state !== 'broken'
RECURSIVE RepeatSegmentDamage(_, _, _, _)
RepeatSegmentDamage(W, k, damage, n) ==
    IF n = 0 \/ Seg(W, k).state = "broken" THEN W
    ELSE RepeatSegmentDamage(segmentTakeDamage(W, k, damage), k, damage,
                             n - 1)

\* the deck segments that contain the point above cell x
RECURSIVE DamageSegmentsAt(_, _, _, _, _)
DamageSegmentsAt(W, k, x, damage, n) ==
    IF ~HasBridge(W) \/ k >= NumSegments THEN W
    ELSE IF Seg(W, k).x = x
         THEN DamageSegmentsAt(RepeatSegmentDamage(W, k, damage, n), k + 1,
                               x, damage, n)
         ELSE DamageSegmentsAt(W, k + 1, x, damage, n)

\* Laser.update past the expiry test: the vertical beam takes LaserDamage
\* off the building it crosses and off the deck segment under it at every
\* step of 5 px that lies inside them
laserDamage(W, laser) ==
    LET i == BuildingAt(W, 1, laser.x)
        W1 == IF i > 0
              THEN [RepeatDamage(W, i, LaserDamage, LaserSteps)
                       EXCEPT !.targeted = @ \cup {W.buildings[i].id}]
              ELSE W
    IN  DamageSegmentsAt(W1, 0, laser.x, LaserDamage, LaserSteps)

\* Laser.update and the test of the filter, return laser.active
laserUpdate(W, laser) ==
    IF W.t - laser.startTime >= LaserDuration
    THEN [w |-> W, keep |-> << >>]
    ELSE [w |-> laserDamage(W, laser), keep |-> << laser >>]

RECURSIVE UpdateLasersFrom(_, _, _, _)
UpdateLasersFrom(W, queue, i, kept) ==
    IF i > Len(queue) THEN [W EXCEPT !.lasers = kept]
    ELSE LET r == laserUpdate(W, queue[i]) IN
         UpdateLasersFrom(r.w, queue, i + 1, kept \o r.keep)

\* lasers = lasers.filter(laser => { laser.update(); return laser.active; })
UpdateLasers(W) == UpdateLasersFrom(W, W.lasers, 1, << >>)

\* the building loop of Tornado.update
RECURSIVE TornadoBuildingsFrom(_, _, _)
TornadoBuildingsFrom(W, i, x) ==
    IF i > Len(W.buildings) THEN W
    ELSE LET b == W.buildings[i]
             distance == Abs(b.x - x)
         IN  IF b.state # "collapsed" /\ distance < TornadoDamageRadius
             THEN TornadoBuildingsFrom(
                      [takeDamage(W, i,
                                  ApplyFalloff(TornadoDamage, distance,
                                               TornadoDamageRadius, 2),
                                  distance, TornadoDamageRadius)
                          EXCEPT !.targeted = @ \cup {b.id}],
                      i + 1, x)
             ELSE TornadoBuildingsFrom(W, i + 1, x)

\* the segment loop of Tornado.update
RECURSIVE TornadoSegmentsFrom(_, _, _)
TornadoSegmentsFrom(W, k, x) ==
    IF ~HasBridge(W) \/ k >= NumSegments THEN W
    ELSE LET s == Seg(W, k)
             distance == Abs(s.x - x)
         IN  IF s.state # "broken" /\ distance < TornadoDamageRadius
             THEN TornadoSegmentsFrom(
                      segmentTakeDamage(
                          W, k, ApplyFalloff(TornadoDamage, distance,
                                             TornadoDamageRadius, 2)),
                      k + 1, x)
             ELSE TornadoSegmentsFrom(W, k + 1, x)

\* Tornado.update without the test of its duration
tornadoUpdateForever(W, tornado) ==
    [w |-> TornadoSegmentsFrom(TornadoBuildingsFrom(W, 1, tornado.x), 0,
                               tornado.x),
     keep |-> << tornado >>]

\* Tornado.update and the test of the filter, return tornado.active; the
\* drift of the tornado stays within its cell
tornadoUpdate(W, tornado) ==
    IF W.t - tornado.startTime >= tornado.duration
    THEN [w |-> W, keep |-> << >>]
    ELSE [w |-> TornadoSegmentsFrom(TornadoBuildingsFrom(W, 1, tornado.x),
                                    0, tornado.x),
          keep |-> << tornado >>]

RECURSIVE UpdateTornadosFrom(_, _, _, _)
UpdateTornadosFrom(W, queue, i, kept) ==
    IF i > Len(queue) THEN [W EXCEPT !.tornados = kept]
    ELSE LET r == tornadoUpdate(W, queue[i]) IN
         UpdateTornadosFrom(r.w, queue, i + 1, kept \o r.keep)

\* tornados = tornados.filter(t => { t.update(); return t.active; })
UpdateTornados(W) == UpdateTornadosFrom(W, W.tornados, 1, << >>)

\* RobotHandLaser.update and the test of the filter: the beam takes its
\* frame damage, reduced with the distance from the hand, off the building
\* at the cell it is aimed at and half of it off the deck segment there
handLaserUpdate(W, beam) ==
    LET hitDistance == Abs(beam.targetX - beam.startX)
        damage == ApplyFalloff(HandLaserFrameDamage, hitDistance,
                               BeamLength, 2)
        i == BuildingAt(W, 1, beam.targetX)
        W1 == IF i > 0
              THEN [takeDamage(W, i, damage, hitDistance, BeamLength)
                       EXCEPT !.targeted = @ \cup {W.buildings[i].id}]
              ELSE W
    IN  IF W.t - beam.startTime >= HandLaserDuration
        THEN [w |-> W, keep |-> << >>]
        ELSE [w |-> DamageSegmentsAt(W1, 0, beam.targetX, damage \div 2, 1),
              keep |-> << beam >>]

RECURSIVE UpdateHandLasersFrom(_, _, _, _)
UpdateHandLasersFrom(W, queue, i, kept) ==
    IF i > Len(queue) THEN [W EXCEPT !.robotHandLasers = kept]
    ELSE LET r == handLaserUpdate(W, queue[i]) IN
         UpdateHandLasersFrom(r.w, queue, i + 1, kept \o r.keep)

\* robotHandLasers = robotHandLasers.filter(...)
UpdateHandLasers(W) == UpdateHandLasersFrom(W, W.robotHandLasers, 1, << >>)

\* UFOLaser.update and the test of the filter: the segments are damaged
\* from within the branch of a building that the beam has hit
ufoLaserUpdate(W, beam) ==
    LET hitDistance == Abs(beam.targetX - beam.startX)
        damage == ApplyFalloff(UfoLaserFrameDamage, hitDistance,
                               BeamLength, 2)
        i == BuildingAt(W, 1, beam.targetX)
    IN  IF W.t - beam.startTime >= UfoLaserDuration
        THEN [w |-> W, keep |-> << >>]
        ELSE IF i > 0
        THEN [w |-> DamageSegmentsAt(
                        [takeDamage(W, i, damage, hitDistance, BeamLength)
                            EXCEPT !.targeted = @ \cup {W.buildings[i].id}],
                        0, beam.targetX, damage \div 2, 1),
              keep |-> << beam >>]
        ELSE [w |-> W, keep |-> << beam >>]

RECURSIVE UpdateUfoLasersFrom(_, _, _, _)
UpdateUfoLasersFrom(W, queue, i, kept) ==
    IF i > Len(queue) THEN [W EXCEPT !.ufoHandLasers = kept]
    ELSE LET r == ufoLaserUpdate(W, queue[i]) IN
         UpdateUfoLasersFrom(r.w, queue, i + 1, kept \o r.keep)

\* ufoHandLasers = ufoHandLasers.filter(...)
UpdateUfoLasers(W) == UpdateUfoLasersFrom(W, W.ufoHandLasers, 1, << >>)

\* the laser blocks of Robot.update: the arm lasers of the held R and T
\* keys, the pointer-aimed hand laser with its energy, and the second pair
\* of arm blocks, which fire on a cooldown that is still at its initial 0
robotFireLasers(W) ==
    LET r == W.robot
        facing == r.x + BeamLength
        rightFirst == /\ W.robotControls.rightArmFire
                      /\ W.t - r.rightArmCooldown > ArmFireInterval
        leftFirst == /\ W.robotControls.leftArmFire
                     /\ W.t - r.leftArmCooldown > ArmFireInterval
        right1 == IF rightFirst THEN W.t ELSE r.rightArmCooldown
        left1 == IF leftFirst THEN W.t ELSE r.leftArmCooldown
        firing == r.laserFiring /\ W.pointerActive /\ r.laserEnergy > 0
        shot == firing /\ W.t - r.lastLaserFireTime >= LaserFireRate
        leftSecond == W.robotControls.leftArmFire /\ left1 = LongAgo
        rightSecond == W.robotControls.rightArmFire /\ right1 = LongAgo
        Arm(fired) == IF fired THEN << NewBeam(W.t, r.x, facing) >>
                      ELSE << >>
    IN  [W EXCEPT
            !.robotHandLasers =
                @ \o Arm(rightFirst) \o Arm(leftFirst)
                  \o (IF shot
                      THEN << NewBeam(W.t, r.x, W.pointerPosition) >>
                      ELSE << >>)
                  \o Arm(leftSecond) \o Arm(rightSecond),
            !.robot.rightArmCooldown =
                IF rightSecond THEN ArmFireRate ELSE right1,
            !.robot.leftArmCooldown =
                IF leftSecond THEN ArmFireRate ELSE left1,
            !.robot.lastLaserFireTime = IF shot THEN W.t ELSE @,
            !.robot.laserEnergy =
                IF firing
                THEN (IF shot THEN Max(0, @ - LaserEnergyDrainRate) ELSE @)
                ELSE Min(MaxLaserEnergy, @ + LaserEnergyRegenRate)]

\* the laser block of UFO.update
ufoFireLaser(W) ==
    IF /\ W.weapon = "ufo" /\ W.ufoControls.laser /\ W.pointerActive
       /\ W.t - W.ufo.lastLaserFireTime >= UfoLaserFireRate
    THEN [W EXCEPT
            !.ufoHandLasers =
                Append(@, NewBeam(W.t, W.ufo.x, W.pointerPosition)),
            !.ufo.lastLaserFireTime = W.t]
    ELSE W

----------------------------------------------------------------------------
(* class Robot, class UFO                                                  *)

RobotSpawnX == 0             \* LevelManager.spawnRobotAtStart
MissilePoseDuration == 1     \* missilePoseDuration, in frames
MissileCooldownTime == 2     \* missileCooldownTime, in frames
MissileCap == 10             \* if (robotMissiles.length > 10)
UfoSpawnX == 1               \* the cell the UFO hovers over
TractorRadius == 3           \* tractorRadius = 150
TractorSpawnInterval == 1    \* 80 + Math.random() * 60 ms

\* new Robot(...)
NewRobot ==
    [ present |-> TRUE, x |-> RobotSpawnX, missileCooldown |-> 0,
      missilePoseTime |-> 0, laserFiring |-> FALSE,
      laserEnergy |-> MaxLaserEnergy, lastLaserFireTime |-> LongAgo,
      rightArmCooldown |-> LongAgo, leftArmCooldown |-> LongAgo ]

spawnRobot(W) == [W EXCEPT !.robot = NewRobot, !.pointerActive = FALSE]

\* new UFO(...)
NewUFO == [present |-> TRUE, x |-> UfoSpawnX, lastLaserFireTime |-> LongAgo]

spawnUFO(W) ==
    [W EXCEPT !.ufo = NewUFO,
              !.ufoControls.laser = FALSE,
              !.ufoControls.tractor = FALSE,
              !.ufoHandLasers = << >>,
              !.pointerActive = FALSE]

\* the building that stands where the robot would step to, if any
RECURSIVE Blocking(_, _, _)
Blocking(W, i, newX) ==
    IF i > Len(W.buildings) THEN 0
    ELSE IF W.buildings[i].state # "collapsed"
              /\ Contains(W.buildings[i], newX)
         THEN i
         ELSE Blocking(W, i + 1, newX)

\* the rest of Robot.update: missile cooldown and pose, launch, trigger,
\* movement
robotMissileAndMove(W) ==
    LET r == W.robot
        cooldown == IF r.missileCooldown > 0 THEN r.missileCooldown - 1
                    ELSE r.missileCooldown
        pose == IF r.missilePoseTime > 0 THEN r.missilePoseTime - 1
                ELSE r.missilePoseTime
        launch == r.missilePoseTime > 0 /\ pose = 0
        trigger == W.robotControls.missile /\ cooldown <= 0 /\ pose = 0
        newX == r.x + W.robotControls.move
        hit == Blocking(W, 1, newX)
        canMoveX == hit = 0 /\ newX \in Cells
    IN  [W EXCEPT
            !.robot = [r EXCEPT
                !.missileCooldown =
                    IF trigger THEN MissileCooldownTime ELSE cooldown,
                !.missilePoseTime =
                    IF trigger THEN MissilePoseDuration ELSE pose,
                !.x = IF canMoveX THEN newX ELSE @],
            !.robotControls.missile = IF trigger THEN FALSE ELSE @,
            !.robotMissiles = IF launch THEN Append(@, NewMissile) ELSE @,
            !.targeted = IF hit > 0 THEN @ \cup {W.buildings[hit].id}
                         ELSE @]

\* Robot.update: the lasers, then the missile and the movement
robotUpdate(W) == robotMissileAndMove(robotFireLasers(W))

\* the voxelisation branch of applyTractorBeam for building i; voxelCutouts
\* counts the cells that the branch has added to building.voxelCutouts
tractorBuilding(W, i) ==
    LET b == W.buildings[i]
        distance == Abs(b.x - W.ufo.x)
        near == TractorRadius - distance
        clusterSize == 3 + (5 * near) \div TractorRadius
        damage == (near * clusterSize * 80) \div TractorRadius
        W1 == [W EXCEPT !.voxelBits =
                  GuardedPush(@, SleepFragment, clusterSize,
                              MAX_VOXEL_BITS)]
        W2 == takeDamage(W1, i, damage, 0, DefaultMaxDistance)
    IN  IF b.state # "collapsed" /\ distance < TractorRadius
        THEN IF W.t - b.lastVoxelSpawnTime >= TractorSpawnInterval
                  /\ Len(W.voxelBits) < MAX_VOXEL_BITS
             THEN [W2 EXCEPT !.buildings[i].lastVoxelSpawnTime = W.t,
                             !.buildings[i].voxelCutouts =
                                 @ + Len(W1.voxelBits) - Len(W.voxelBits),
                             !.targeted = @ \cup {b.id}]
             ELSE [W EXCEPT !.targeted = @ \cup {b.id}]
        ELSE W

RECURSIVE TractorBuildingsFrom(_, _)
TractorBuildingsFrom(W, i) ==
    IF i > Len(W.buildings) THEN W
    ELSE TractorBuildingsFrom(tractorBuilding(W, i), i + 1)

\* the particle loop of applyTractorBeam; W.rnd.beamed says whether the
\* resting fragments lie within tractorRadius of the beam
tractorWake(f, beamed) ==
    IF ~f.doNotDraw /\ beamed /\ f.sleeping
    THEN [f EXCEPT !.sleeping = FALSE, !.settledTime = NULL,
                   !.doNotDraw = FALSE]
    ELSE f

applyTractorBeam(W) ==
    TractorBuildingsFrom(
        [W EXCEPT !.particles =
            [k \in 1 .. Len(W.particles) |->
                tractorWake(W.particles[k], W.rnd.beamed)]],
        1)

\* UFO.update: the tractor beam while F is held
ufoTractor(W) ==
    IF W.weapon = "ufo" /\ W.ufoControls.tractor THEN applyTractorBeam(W)
    ELSE W

\* UFO.update: the laser, then the tractor beam
ufoUpdate(W) == ufoTractor(ufoFireLaser(W))

----------------------------------------------------------------------------
(* gameLoop                                                                *)

\* the values that Math.random() and the physics can take in one handler
Rnd(looses, missileXs, lows, breakDelays, breakCounts, snaps, offs, beams) ==
    [ loose : looses, missileX : missileXs, missileLow : lows,
      breakDelay : breakDelays, breakCount : breakCounts,
      cableDelay : CableDelays, cableRadius : CableRadii,
      snap : snaps, offscreen : offs, beamed : beams, aloft : {{}} ]

\* the choices of a handler that consults none of them but the cascade's
QuietRnd ==
    Rnd({FALSE}, {0}, {FALSE}, BreakDelays, BreakCounts, {NULL}, {FALSE},
        {FALSE})

CapMissiles(W) ==
    IF Len(W.robotMissiles) > MissileCap
    THEN [W EXCEPT !.robotMissiles =
             SubSeq(@, Len(@) - MissileCap + 1, Len(@))]
    ELSE W

Failsafe(W) ==
    LET W1 == IF W.weapon = "robot" /\ ~W.robot.present
              THEN spawnRobot(W) ELSE W
    IN  IF W1.weapon = "ufo" /\ ~W1.ufo.present THEN spawnUFO(W1) ELSE W1

UpdateAgents(W) ==
    LET W1 == IF W.weapon = "robot" /\ W.robot.present
              THEN robotUpdate(W) ELSE W
    IN  IF W1.weapon = "ufo" /\ W1.ufo.present THEN ufoUpdate(W1) ELSE W1

UpdateBridge(W) == IF HasBridge(W) THEN bridgeUpdate(W) ELSE W

\* one frame, in the order of gameLoop, dt after the last reading of
\* Date.now()
Frame(W) ==
    UpdateVoxelBits(UpdateTimedPools(UpdateMeteors(UpdateParticles(
      UpdateStickyBombs(UpdateTornados(
        UpdateUfoLasers(UpdateHandLasers(UpdateLasers(
          UpdateBombs(UpdateBridgeDebris(
            CapMissiles(UpdateMissiles(
              UpdateBridge(UpdateAgents(Failsafe(
                UpdateBuildings(W)))))))))))))))))

\* gameLoop with the meteors drawn at the top of the frame, next to the
\* background, before the updates
FrameCallsMeteorsFirst(W) ==
    LET Call(c, o, made) ==
            IF made THEN << [call |-> c, on |-> o] >> ELSE << >>
        W1 == UpdateBuildings(W)
        W1a == Failsafe(W1)
        W2 == UpdateAgents(W1a)
        W3 == UpdateBridge(W2)
        W4 == CapMissiles(UpdateMissiles(W3))
        W4a == UpdateBridgeDebris(W4)
        W5 == UpdateBombs(W4a)
        W6 == UpdateStickyBombs(W5)
        W7 == UpdateParticles(W6)
        W8 == UpdateMeteors(W7)
        W9 == UpdateTimedPools(W8)
        F == UpdateVoxelBits(W9)
        Standing(V) ==
            \E k \in 1 .. Len(V.buildings) :
                V.buildings[k].state # "collapsed"
        Drawn(pool) == \E k \in 1 .. Len(pool) : ~pool[k].doNotDraw
        updates ==
            Call("update", "buildings", Standing(W))
            \o Call("update", "robot", W1a.weapon = "robot" /\ W1a.robot.present)
            \o Call("update", "ufo", W2.weapon = "ufo" /\ W2.ufo.present)
            \o Call("update", "bridge", HasBridge(W2))
            \o Call("update", "robotMissiles", W3.robotMissiles # << >>)
            \o Call("update", "bridgeDebris", W4.bridgeDebris # << >>)
            \o Call("update", "bombs", W4a.bombs # << >>)
            \o Call("update", "stickyBombs",
                    \E k \in 1 .. Len(W5.stickyBombs) :
                        W5.stickyBombs[k].active)
            \o Call("update", "particles", W6.particles # << >>)
            \o Call("update", "meteors", W7.meteors # << >>)
            \o Call("update", "buildingDebris", W8.buildingDebris # << >>)
            \o Call("update", "microDebris", W8.microDebris # << >>)
            \o Call("update", "dustParticles", W8.dustParticles # << >>)
            \o Call("update", "voxelBits", W9.voxelBits # << >>)
        renderMeteors == Call("render", "meteors", F.meteors # << >>)
        renderRest ==
            Call("render", "buildings", Standing(F))
            \o Call("render", "bombs", F.bombs # << >>)
            \o Call("render", "stickyBombs", F.stickyBombs # << >>)
            \o Call("render", "particles", Drawn(F.particles))
            \o Call("render", "voxelBits", Drawn(F.voxelBits))
            \o Call("render", "buildingDebris", F.buildingDebris # << >>)
            \o Call("render", "microDebris", F.microDebris # << >>)
            \o Call("render", "dustParticles", F.dustParticles # << >>)
            \o Call("render", "robotMissiles", F.robotMissiles # << >>)
            \o Call("render", "bridgeDebris", Drawn(F.bridgeDebris))
            \o Call("render", "robot", F.weapon = "robot")
            \o Call("render", "ufo", F.weapon = "ufo")
    IN  Call("renderBackground", "window", TRUE)
        \o Call("render", "meteors", W.meteors # << >>)
        \o updates
        \o Call("renderGround", "window", TRUE)
        \o Call("render", "bridge", HasBridge(F))
        \o renderRest

\* the calls that one run of gameLoop makes on the components, in order:
\* an entry for each loop or branch of gameLoop that calls update() or
\* render() on at least one object, given the lists as the frame finds
\* them when it gets there.  renderBackground() and renderGround() are the
\* functions that draw the sky and the ground; renderGround() calls
\* render() on the bridge.
FrameCalls(W) ==
    LET Call(c, o, made) ==
            IF made THEN << [call |-> c, on |-> o] >> ELSE << >>
        W1 == UpdateBuildings(W)
        W1a == Failsafe(W1)
        W2 == UpdateAgents(W1a)
        W3 == UpdateBridge(W2)
        W4 == CapMissiles(UpdateMissiles(W3))
        W4a == UpdateBridgeDebris(W4)
        W5 == UpdateBombs(W4a)
        W6 == UpdateStickyBombs(W5)
        W7 == UpdateParticles(W6)
        W8 == UpdateMeteors(W7)
        W9 == UpdateTimedPools(W8)
        F == UpdateVoxelBits(W9)
        Standing(V) ==
            \E k \in 1 .. Len(V.buildings) :
                V.buildings[k].state # "collapsed"
        Drawn(pool) == \E k \in 1 .. Len(pool) : ~pool[k].doNotDraw
        updates ==
            Call("update", "buildings", Standing(W))
            \o Call("update", "robot", W1a.weapon = "robot" /\ W1a.robot.present)
            \o Call("update", "ufo", W2.weapon = "ufo" /\ W2.ufo.present)
            \o Call("update", "bridge", HasBridge(W2))
            \o Call("update", "robotMissiles", W3.robotMissiles # << >>)
            \o Call("update", "bridgeDebris", W4.bridgeDebris # << >>)
            \o Call("update", "bombs", W4a.bombs # << >>)
            \o Call("update", "stickyBombs",
                    \E k \in 1 .. Len(W5.stickyBombs) :
                        W5.stickyBombs[k].active)
            \o Call("update", "particles", W6.particles # << >>)
            \o Call("update", "meteors", W7.meteors # << >>)
            \o Call("update", "buildingDebris", W8.buildingDebris # << >>)
            \o Call("update", "microDebris", W8.microDebris # << >>)
            \o Call("update", "dustParticles", W8.dustParticles # << >>)
            \o Call("update", "voxelBits", W9.voxelBits # << >>)
        renderMeteors == Call("render", "meteors", F.meteors # << >>)
        renderRest ==
            Call("render", "buildings", Standing(F))
            \o Call("render", "bombs", F.bombs # << >>)
            \o Call("render", "stickyBombs", F.stickyBombs # << >>)
            \o Call("render", "particles", Drawn(F.particles))
            \o Call("render", "voxelBits", Drawn(F.voxelBits))
            \o Call("render", "buildingDebris", F.buildingDebris # << >>)
            \o Call("render", "microDebris", F.microDebris # << >>)
            \o Call("render", "dustParticles", F.dustParticles # << >>)
            \o Call("render", "robotMissiles", F.robotMissiles # << >>)
            \o Call("render", "bridgeDebris", Drawn(F.bridgeDebris))
            \o Call("render", "robot", F.weapon = "robot")
            \o Call("render", "ufo", F.weapon = "ufo")
    IN  Call("renderBackground", "window", TRUE)
        \o updates
        \o Call("renderGround", "window", TRUE)
        \o Call("render", "bridge", HasBridge(F))
        \o renderMeteors
        \o renderRest

\* gameLoop, called by requestAnimationFrame dt after the last frame, for
\* as long as the clock is within the horizon
GameLoopUntil(dt, rnd, horizon) ==
    /\ now + dt <= horizon
    /\ Commit(Frame([World(rnd) EXCEPT !.t = now + dt]))
    /\ dispatched' = FALSE
    /\ UNCHANGED << cityEpoch, currentWeapon, currentCityId >>

GameLoop(dt, rnd) == GameLoopUntil(dt, rnd, MaxTime)

----------------------------------------------------------------------------
(* buildCityLayout, generateCity and the input handlers                    *)

Weapons == {"meteor", "nuke", "sticky", "robot", "ufo"}

BridgeCells == {BridgeX0 + k : k \in SegmentIndices}

\* the cells that a pointer event can name in the current city
PointerCells == IF currentCityId = 2 THEN Cells \cup BridgeCells ELSE Cells

\* buildCityLayout(cityId).buildings; res gives each building its
\* materialResistance and mh its maxHealth
LayoutBuildings(epoch, mh, res) ==
    [i \in 1 .. NumBuildings |->
        NewBuilding(i, epoch, mh[i], res[i],
                    CHOOSE d \in CollapseDurations : TRUE)]

\* buildCityLayout(cityId).structures
LayoutBridge(cityId) == IF cityId = 2 THEN NewBridge ELSE NoBridge

\* the WaterWaveSystem that buildCityLayout(2) creates for the river
LayoutWaves(cityId, epoch) == IF cityId = 2 THEN [city |-> epoch] ELSE NoWaves

\* buildCityLayout(cityId): the layout that it returns and the globals as
\* it leaves them; in city 2 it assigns waterWaves
buildCityLayout(W, cityId, epoch, mh, res) ==
    [ buildings |-> LayoutBuildings(epoch, mh, res),
      structures |-> LayoutBridge(cityId),
      globals |-> IF cityId = 2
                  THEN [W EXCEPT !.waterWaves = LayoutWaves(cityId, epoch)]
                  ELSE W ]

\* generateCity() that clears the lists and rebuilds the buildings but
\* leaves the bridge of the previous city standing
generateCityKeepBridge(cityId, mh, res) ==
    LET W == World(CHOOSE r \in QuietRnd : TRUE)
        W0 == [W EXCEPT
                 !.buildings = << >>,
                 !.particles = << >>, !.stickyBombs = << >>,
                 !.meteors = << >>, !.bombs = << >>,
                 !.buildingDebris = << >>,
                 !.microDebris = << >>, !.dustParticles = << >>,
                 !.voxelBits = << >>, !.bridgeDebris = << >>,
                 !.robotMissiles = << >>, !.waterWaves = NoWaves,
                 !.lasers = << >>, !.tornados = << >>,
                 !.robotHandLasers = << >>, !.ufoHandLasers = << >>,
                 !.pointerActive = FALSE, !.ufoControls.laser = FALSE,
                 !.ufoControls.tractor = FALSE]
        layout == buildCityLayout(W0, cityId, cityEpoch + 1, mh, res)
        W1 == [layout.globals EXCEPT !.buildings = layout.buildings]
        W2 == IF currentWeapon = "robot" THEN spawnRobot(W1) ELSE W1
        W3 == IF currentWeapon = "ufo" THEN spawnUFO(W2) ELSE W2
    IN  /\ cityEpoch < MaxRegens
        /\ InputEvent
        /\ cityEpoch' = cityEpoch + 1
        /\ currentCityId' = cityId
        /\ Commit(W3)
        /\ UNCHANGED currentWeapon

\* generateCity() for the city cityId
generateCity(cityId, mh, res) ==
    LET W == World(CHOOSE r \in QuietRnd : TRUE)
        W0 == [W EXCEPT
                 !.buildings = << >>, !.bridge = NoBridge,
                 !.particles = << >>, !.stickyBombs = << >>,
                 !.meteors = << >>, !.bombs = << >>,
                 !.buildingDebris = << >>,
                 !.microDebris = << >>, !.dustParticles = << >>,
                 !.voxelBits = << >>, !.bridgeDebris = << >>,
                 !.robotMissiles = << >>, !.waterWaves = NoWaves,
                 !.lasers = << >>, !.tornados = << >>,
                 !.robotHandLasers = << >>, !.ufoHandLasers = << >>,
                 !.pointerActive = FALSE, !.ufoControls.laser = FALSE,
                 !.ufoControls.tractor = FALSE]
        layout == buildCityLayout(W0, cityId, cityEpoch + 1, mh, res)
        W1 == [layout.globals EXCEPT !.buildings = layout.buildings,
                                     !.bridge = layout.structures]
        W2 == IF currentWeapon = "robot" THEN spawnRobot(W1) ELSE W1
        W3 == IF currentWeapon = "ufo" THEN spawnUFO(W2) ELSE W2
    IN  /\ cityEpoch < MaxRegens
        /\ InputEvent
        /\ cityEpoch' = cityEpoch + 1
        /\ currentCityId' = cityId
        /\ Commit(W3)
        /\ UNCHANGED currentWeapon

\* a city whose buildings are all of one kind
UniformLayout(v) == [i \in BuildingIds |-> v]

\* the reset button
ResetButton ==
    \E res \in CityLayouts :
        generateCity(currentCityId, UniformLayout(BuildingMaxHealth),
                     UniformLayout(res))

\* the city button: currentCityId = (currentCityId % 3) + 1; generateCity()
CityButton ==
    \E res \in CityLayouts :
        generateCity((currentCityId % 3) + 1, UniformLayout(BuildingMaxHealth),
                     UniformLayout(res))

\* a click on a weapon button.  The callback assigns currentWeapon and then
\* stops at its first use of robotControlsUI, which it declares with const
\* further down; the spawn and reset code after that point is not reached.
\* Only the sticky branch resets robot.laserFiring before that point.
SelectWeapon(weapon) ==
    /\ InputEvent
    /\ weapon # currentWeapon
    /\ currentWeapon' = weapon
    /\ targeted' = {}
    /\ evicted' = << >>
    /\ robot' = IF weapon = "sticky" /\ robot.present
                THEN [robot EXCEPT !.laserFiring = FALSE] ELSE robot
    /\ UNCHANGED << now, cityEpoch, currentCityId, buildings, stickyBombs,
                    meteors, bombs, robotMissiles, particles, voxelBits,
                    bridgeDebris, buildingDebris, microDebris,
                    dustParticles, bridge, waterWaves, robotControls,
                    ufo, ufoControls,
                    lasers, tornados, robotHandLasers, ufoHandLasers,
                    pointerActive, pointerPosition >>

\* createMeteorStrike(x, y)
createMeteorStrike(W, x) ==
    IF Len(W.meteors) >= MAX_METEORS THEN W
    ELSE [W EXCEPT !.meteors = Append(@, NewMeteor(W.t, x))]

\* handlePointer in meteor mode
MeteorStrike(x) ==
    /\ InputEvent
    /\ currentWeapon = "meteor"
    /\ x \in PointerCells
    /\ Len(meteors) < MAX_METEORS
    /\ Commit(createMeteorStrike(World(CHOOSE r \in QuietRnd : TRUE), x))
    /\ UNCHANGED << cityEpoch, currentWeapon, currentCityId >>

\* handlePointer in nuke mode
NukeStrike(x) ==
    /\ InputEvent
    /\ currentWeapon = "nuke"
    /\ x \in PointerCells
    /\ Len(bombs) < MAX_BOMBS
    /\ Commit(createNukeStrike(World(CHOOSE r \in QuietRnd : TRUE), x))
    /\ UNCHANGED << cityEpoch, currentWeapon, currentCityId >>

\* handlePointer in sticky mode
PlaceStickyBomb(x) ==
    /\ InputEvent
    /\ currentWeapon = "sticky"
    /\ x \in PointerCells
    /\ Len(stickyBombs) < MaxStickyBombs
    /\ Commit(placeStickyBomb(World(CHOOSE r \in QuietRnd : TRUE), x))
    /\ UNCHANGED << cityEpoch, currentWeapon, currentCityId >>

\* the detonate button
Detonate(rnd) ==
    /\ InputEvent
    /\ stickyBombs # << >>
    /\ Commit(detonateAllStickyBombs(World(rnd)))
    /\ UNCHANGED << cityEpoch, currentWeapon, currentCityId >>

\* keydown 'o' in robot mode
KeyMissile ==
    /\ InputEvent
    /\ currentWeapon = "robot"
    /\ ~robotControls.missile
    /\ robotControls' = [robotControls EXCEPT !.missile = TRUE]
    /\ targeted' = {}
    /\ evicted' = << >>
    /\ UNCHANGED << now, cityEpoch, currentWeapon, currentCityId, buildings,
                    stickyBombs, meteors, bombs, robotMissiles, particles,
                    voxelBits, bridgeDebris, buildingDebris, microDebris,
                    dustParticles, bridge, waterWaves, robot, ufo, ufoControls,
                    lasers, tornados, robotHandLasers, ufoHandLasers,
                    pointerActive, pointerPosition >>

\* keydown / keyup of an arrow key in robot mode
KeyMove(dir) ==
    /\ InputEvent
    /\ currentWeapon = "robot"
    /\ dir # robotControls.move
    /\ robotControls' = [robotControls EXCEPT !.move = dir]
    /\ targeted' = {}
    /\ evicted' = << >>
    /\ UNCHANGED << now, cityEpoch, currentWeapon, currentCityId, buildings,
                    stickyBombs, meteors, bombs, robotMissiles, particles,
                    voxelBits, bridgeDebris, buildingDebris, microDebris,
                    dustParticles, bridge, waterWaves, robot, ufo, ufoControls,
                    lasers, tornados, robotHandLasers, ufoHandLasers,
                    pointerActive, pointerPosition >>

\* keydown / keyup 'f' in UFO mode
KeyTractor(held) ==
    /\ InputEvent
    /\ currentWeapon = "ufo"
    /\ held # ufoControls.tractor
    /\ ufoControls' = [ufoControls EXCEPT !.tractor = held]
    /\ targeted' = {}
    /\ evicted' = << >>
    /\ UNCHANGED << now, cityEpoch, currentWeapon, currentCityId, buildings,
                    stickyBombs, meteors, bombs, robotMissiles, particles,
                    voxelBits, bridgeDebris, buildingDebris, microDebris,
                    dustParticles, bridge, waterWaves, robot, robotControls, ufo,
                    lasers, tornados, robotHandLasers, ufoHandLasers,
                    pointerActive, pointerPosition >>

----------------------------------------------------------------------------
(* Start-up and the specification of the whole game.                       *)

InitCity(cityId, mh, res) ==
    /\ now = 0
    /\ cityEpoch = 0
    /\ currentWeapon = "meteor"
    /\ currentCityId = cityId
    /\ buildings = LayoutBuildings(0, mh, res)
    /\ stickyBombs = << >>
    /\ meteors = << >>
    /\ bombs = << >>
    /\ robotMissiles = << >>
    /\ particles = << >>
    /\ voxelBits = << >>
    /\ bridgeDebris = << >>
    /\ buildingDebris = << >>
    /\ microDebris = << >>
    /\ dustParticles = << >>
    /\ bridge = LayoutBridge(cityId)
    /\ waterWaves = LayoutWaves(cityId, 0)
    /\ robot = NoAgent
    /\ robotControls = [missile |-> FALSE, move |-> 0,
                        rightArmFire |-> FALSE, leftArmFire |-> FALSE]
    /\ ufo = NoAgent
    /\ ufoControls = [tractor |-> FALSE, laser |-> FALSE]
    /\ lasers = << >>
    /\ tornados = << >>
    /\ robotHandLasers = << >>
    /\ ufoHandLasers = << >>
    /\ pointerActive = FALSE
    /\ pointerPosition = 0
    /\ targeted = {}
    /\ evicted = << >>
    /\ dispatched = FALSE

Init ==
    \E res \in CityLayouts :
        InitCity(1, UniformLayout(BuildingMaxHealth), UniformLayout(res))

FrameRnd ==
    Rnd(BOOLEAN, Cells, BOOLEAN, BreakDelays, BreakCounts, {NULL}, {FALSE},
        BOOLEAN)

Next ==
    \/ \E rnd \in FrameRnd : GameLoop(FrameInterval, rnd)
    \/ \E w \in Weapons : SelectWeapon(w)
    \/ \E x \in Cells \cup BridgeCells : MeteorStrike(x)
    \/ \E x \in Cells \cup BridgeCells : NukeStrike(x)
    \/ \E x \in Cells \cup BridgeCells : PlaceStickyBomb(x)
    \/ \E rnd \in QuietRnd : Detonate(rnd)
    \/ KeyMissile
    \/ \E dir \in {-1, 0, 1} : KeyMove(dir)
    \/ \E held \in BOOLEAN : KeyTractor(held)
    \/ ResetButton
    \/ CityButton

Spec == Init /\ [][Next]_vars

----------------------------------------------------------------------------
(* The city under the pointer weapons: meteor strikes, sticky bombs, the   *)
(* detonate button and the reset button, in city 1.                        *)

CityRnd ==
    Rnd(BOOLEAN, {0}, {FALSE}, {2}, {3}, {NULL}, {FALSE}, {FALSE})

NextCity ==
    \/ \E rnd \in CityRnd : GameLoop(FrameInterval, rnd)
    \/ \E w \in {"meteor", "nuke", "sticky"} : SelectWeapon(w)
    \/ \E x \in Cells : MeteorStrike(x)
    \/ \E x \in Cells : NukeStrike(x)
    \/ \E x \in Cells : PlaceStickyBomb(x)
    \/ \E rnd \in CityRnd : Detonate(rnd)
    \/ ResetButton

SpecCity == Init /\ [][NextCity]_vars

----------------------------------------------------------------------------
(* Building.takeDamage called as the weapons call it, on any building of   *)
(* the list and with any of a few damage values, between frames.           *)

DamageSamples == {120 * HP}
DistanceSamples == {0, 1}

DirectDamage(i, damage, distance) ==
    /\ InputEvent
    /\ i \in 1 .. Len(buildings)
    /\ Commit(takeDamage(World(CHOOSE r \in QuietRnd : TRUE), i, damage,
                         distance, DefaultMaxDistance))
    /\ UNCHANGED << cityEpoch, currentWeapon, currentCityId >>

NextDamage ==
    \/ \E rnd \in CityRnd : GameLoop(FrameInterval, rnd)
    \/ \E i \in BuildingIds, damage \in DamageSamples,
          distance \in DistanceSamples : DirectDamage(i, damage, distance)

SpecDamage == Init /\ [][NextDamage]_vars

----------------------------------------------------------------------------
(* Claims about the Building life cycle.                                   *)

\* the same Building object before and after a step
SameBuilding(b, c) == b.id = c.id /\ b.city = c.city

LegalMoves ==
    { << "alive", "alive" >>, << "alive", "collapsing" >>,
      << "collapsing", "collapsing" >>, << "collapsing", "collapsed" >>,
      << "collapsed", "collapsed" >> }

\* C1: a Building's state only moves alive -> collapsing -> collapsed; no
\* step takes it back to an earlier state and none skips collapsing.
C1_StateOrder ==
    [][\A k \in 1 .. Len(buildings) : \A j \in 1 .. Len(buildings') :
          SameBuilding(buildings[k], buildings'[j])
              => << buildings[k].state, buildings'[j].state >> \in LegalMoves
      ]_vars

\* a building has gone through its whole collapse and is still in the list
C1_Witness ==
    \E k \in 1 .. Len(buildings) :
        /\ buildings[k].state = "collapsed"
        /\ buildings[k].collapseStartTime # NULL
        /\ now - buildings[k].collapseStartTime >= buildings[k].collapseDuration

\* the pools that takeDamage can spawn into
SpawnPools ==
    << particles, voxelBits, buildingDebris, microDebris, dustParticles >>

\* C2: takeDamage on a collapsed Building changes nothing: its health and
\* every other field stay as they were and no debris, dust or fragment is
\* spawned.
C2_CollapsedNoOp ==
    [][\A i \in 1 .. Len(buildings) :
          /\ buildings[i].state = "collapsed"
          /\ \E damage \in DamageSamples, distance \in DistanceSamples :
                 DirectDamage(i, damage, distance)
          => /\ buildings' = buildings
             /\ SpawnPools' = SpawnPools
      ]_vars

\* takeDamage has just been called on a building that had collapsed
C2_Witness ==
    /\ dispatched
    /\ Len(buildings) > 0
    /\ \A k \in 1 .. Len(buildings) : buildings[k].state = "collapsed"

\* C3: a collapsed Building is accepted by no collision or area query of a
\* handler that runs after the collapse, later in the same frame included:
\* weapon blast, sticky placement and detonation, missile and agent
\* collision, tractor beam.
C3_CollapsedExcluded ==
    \A k \in 1 .. Len(buildings) :
        buildings[k].state = "collapsed" => buildings[k].id \notin targeted

\* a blast went off in the frame in which a building within its radius
\* finished collapsing, and it struck another building
C3_Witness ==
    /\ targeted # {}
    /\ ~dispatched
    /\ \E k \in 1 .. Len(buildings) : buildings[k].state = "collapsed"

\* C5: damageStage never decreases while the building stands or collapses,
\* and a call of takeDamage fires the debris burst exactly once when it
\* raises the stage and not at all when it does not.
C5_StageMonotone ==
    [][\A k \in 1 .. Len(buildings) : \A j \in 1 .. Len(buildings') :
          SameBuilding(buildings[k], buildings'[j])
              => /\ buildings'[j].damageStage >= buildings[k].damageStage
                 /\ buildings'[j].bursts - buildings[k].bursts =
                        IF buildings'[j].damageStage > buildings[k].damageStage
                        THEN 1 ELSE 0
      ]_vars

\* a building has crossed into a higher stage twice, with a burst each time
C5_Witness ==
    \E k \in 1 .. Len(buildings) :
        buildings[k].bursts >= 2 /\ buildings[k].damageStage = 3

----------------------------------------------------------------------------
(* The city under every weapon and both agents, in city 1.                 *)

GameRnd ==
    Rnd({FALSE}, BuildingIds, BOOLEAN, {2}, {3}, {NULL}, {FALSE}, {FALSE})

NextGame ==
    \/ \E rnd \in GameRnd : GameLoop(FrameInterval, rnd)
    \/ \E w \in Weapons : SelectWeapon(w)
    \/ \E x \in Cells : MeteorStrike(x)
    \/ \E x \in Cells : NukeStrike(x)
    \/ \E x \in Cells : PlaceStickyBomb(x)
    \/ \E rnd \in CityRnd : Detonate(rnd)
    \/ KeyMissile
    \/ \E dir \in {0, 1} : KeyMove(dir)
    \/ \E held \in BOOLEAN : KeyTractor(held)

SpecGame == Init /\ [][NextGame]_vars

----------------------------------------------------------------------------
(* City 2: the bridge and the buildings under meteor and nuke strikes,     *)
(* with the reset button.                                                  *)

InitBridgeCity ==
    \E res \in CityLayouts :
        InitCity(2, UniformLayout(BuildingMaxHealth), UniformLayout(res))

BridgeRnd ==
    Rnd({FALSE}, {0}, {FALSE}, BreakDelays, BreakCounts,
        {NULL, MiddleIndex}, {FALSE}, {FALSE})

NextBridge ==
    \/ \E rnd \in BridgeRnd : GameLoop(FrameInterval, rnd)
    \/ \E w \in {"meteor", "nuke"} : SelectWeapon(w)
    \/ \E x \in Cells \cup BridgeCells : MeteorStrike(x)
    \/ \E x \in Cells \cup BridgeCells : NukeStrike(x)
    \/ ResetButton

SpecBridge == InitBridgeCity /\ [][NextBridge]_vars

----------------------------------------------------------------------------
(* BridgeSegment.takeDamage called directly on any segment of the deck,    *)
(* between frames, with the cascade left to the frames that follow.        *)

SegmentDamageSamples == {60 * HP}

SegmentDamage(k, damage, rnd) ==
    /\ InputEvent
    /\ Len(bridge.segments) > 0
    /\ Commit(segmentTakeDamage(World(rnd), k, damage))
    /\ UNCHANGED << cityEpoch, currentWeapon, currentCityId >>

NextSegment ==
    \/ \E rnd \in BridgeRnd : GameLoop(FrameInterval, rnd)
    \/ \E k \in SegmentIndices, damage \in SegmentDamageSamples,
          rnd \in QuietRnd : SegmentDamage(k, damage, rnd)
    \/ ResetButton

SpecSegment == InitBridgeCity /\ [][NextSegment]_vars

----------------------------------------------------------------------------
(* Claims about health and about the bridge.                               *)

InService(s) == s.state \in {"intact", "damaged"}

\* C4: from one step to the next the health of a Building does not
\* increase while the same Building object is in the list, and the health
\* of a BridgeSegment does not increase while the city (and with it the
\* Bridge object) is the same, whatever the step does: a meteor or nuke
\* blast, a cascade entry, a collapse tick.
C4_HealthNeverIncreases ==
    [][/\ \A k \in 1 .. Len(buildings) : \A j \in 1 .. Len(buildings') :
            SameBuilding(buildings[k], buildings'[j])
                => buildings'[j].health <= buildings[k].health
       /\ cityEpoch' = cityEpoch
            => \A k \in 1 .. Len(bridge.segments) :
                   bridge'.segments[k].health <= bridge.segments[k].health
      ]_vars

\* a building and a segment have both lost health, the segment in two hits
\* of different strength, and the city has been rebuilt once before
C4_Witness ==
    /\ cityEpoch > 0
    /\ \E k \in 1 .. Len(buildings) :
           buildings[k].health < buildings[k].maxHealth
    /\ \E k \in 1 .. Len(bridge.segments) :
           /\ bridge.segments[k].health < SegmentMaxHealth
           /\ bridge.segments[k].health > 0
           /\ bridge.segments[k].state = "damaged"

\* the new entries of a queue that a step has only appended to
Appended(old, new) == SubSeq(new, Len(old) + 1, Len(new))

\* C8: when BridgeSegment.takeDamage breaks the middle segment, every
\* neighbouring segment still in service is queued for a forced break,
\* the entries queued by the break carry break times that lie in the
\* future and increase strictly in queue order, and no other segment
\* changes state in the step of the break.
C8_CascadeStaggered ==
    [][/\ Len(bridge.segments) > 0
       /\ InService(bridge.segments[MiddleIndex + 1])
       /\ ~InService(bridge'.segments[MiddleIndex + 1])
       /\ \E rnd \in QuietRnd, damage \in SegmentDamageSamples :
              SegmentDamage(MiddleIndex, damage, rnd)
       => LET queued == Appended(bridge.destructionSequence,
                                 bridge'.destructionSequence)
          IN  /\ \A n \in {MiddleIndex - 1, MiddleIndex + 1} :
                     InService(bridge.segments[n + 1])
                         => \E e \in 1 .. Len(queued) :
                                queued[e].segment = n
              /\ \A e \in 1 .. Len(queued) :
                     /\ queued[e].breakTime > now'
                     /\ queued[e].segment # MiddleIndex
                     /\ e > 1 => queued[e].breakTime
                                     > queued[e - 1].breakTime
              /\ \A n \in SegmentIndices \ {MiddleIndex} :
                     bridge'.segments[n + 1] = bridge.segments[n + 1]
      ]_vars

\* the middle segment has just been broken by a hit while both of its
\* neighbours were in service: they are queued and still in service
C8_Witness ==
    /\ dispatched
    /\ Len(bridge.segments) > 0
    /\ bridge.segments[MiddleIndex + 1].state = "dynamic"
    /\ bridge.segments[MiddleIndex + 1].breaks = 1
    /\ InService(bridge.segments[MiddleIndex])
    /\ InService(bridge.segments[MiddleIndex + 2])
    /\ Len(bridge.destructionSequence) >= 2

\* C9: a BridgeSegment that is out of service (broken, or dynamic as the
\* break leaves it) is never intact or damaged again while its Bridge is
\* the bridge of the city: not after further damage, not after a cascade
\* entry, not after a tick.
C9_BrokenIsTerminal ==
    [][cityEpoch' = cityEpoch
         => \A k \in 1 .. Len(bridge.segments) :
                ~InService(bridge.segments[k])
                    => ~InService(bridge'.segments[k])
      ]_vars

\* a segment that was broken by a hit has been broken a second time by a
\* cascade entry, which leaves its state at broken
C9_Witness ==
    \E k \in 1 .. Len(bridge.segments) :
        /\ bridge.segments[k].state = "broken"
        /\ bridge.segments[k].breaks >= 2

\* C10: a segment with health 100 of 100 that takes 60 damage has health
\* 40 and state damaged; one with health 40 that takes 60 more has health
\* 0 and state broken, and the sway of the bridge is active if the segment
\* lies within one index of the middle.
C10_TwoHits ==
    [][\A k \in SegmentIndices :
          /\ Len(bridge.segments) > 0
          /\ \E rnd \in QuietRnd : SegmentDamage(k, 60 * HP, rnd)
          => LET s == bridge.segments[k + 1]
                 t == bridge'.segments[k + 1]
             IN  /\ s.health = 100 * HP /\ s.state = "intact"
                      => t.health = 40 * HP /\ t.state = "damaged"
                 /\ s.health = 40 * HP /\ s.state = "damaged"
                      => /\ t.health = 0
                         /\ t.state = "broken"
                         /\ IsMiddle(k) => bridge'.swayActive
      ]_vars

----------------------------------------------------------------------------
(* The robot and its missiles over a span of time long enough for debris   *)
(* to settle and fall asleep: frames follow one another FrameInterval      *)
(* apart, or after a pause of the page longer than SLEEP_DELAY.            *)

MaxSparks == 4
LongPause == SLEEP_DELAY + 1
PoolMaxTime == MaxTime + LongPause

\* the sparks of the first explosion may stay in the air while later ones
\* come down
PoolRnd ==
    { [r EXCEPT !.aloft = a] :
        r \in Rnd({FALSE}, {0}, {TRUE}, {2}, {3}, {NULL}, {FALSE}, {FALSE}),
        a \in {{}, 1 .. SparkCount} }

PoolTick ==
    \E dt \in {FrameInterval, LongPause}, rnd \in PoolRnd :
        GameLoopUntil(dt, rnd, PoolMaxTime)

PoolKeyMissile ==
    /\ Len(particles) + SparkCount * Len(robotMissiles) < MaxSparks
    /\ KeyMissile

NextPool ==
    \/ PoolTick
    \/ SelectWeapon("robot")
    \/ PoolKeyMissile

SpecPool == Init /\ [][NextPool]_vars

----------------------------------------------------------------------------
(* Claims about the debris pools.                                          *)

\* the fragments of a pool that are drawn
Live(pool) == Cardinality({k \in 1 .. Len(pool) : ~pool[k].doNotDraw})

\* C6: after every tick the number of fragments of each pool that are not
\* marked doNotDraw is at most the cap of the pool: particles, voxel bits
\* and bridge debris by marking, building debris, micro debris and dust by
\* removal, whichever code pushed the fragments.
C6_PoolsWithinCaps ==
    ~dispatched /\ now > 0
        => /\ Live(particles) <= MAX_PARTICLES
           /\ Live(voxelBits) <= MAX_VOXEL_BITS
           /\ Live(bridgeDebris) <= MAX_BRIDGE_DEBRIS
           /\ Len(buildingDebris) <= MAX_BUILDING_DEBRIS
           /\ Len(microDebris) <= MAX_MICRO_DEBRIS
           /\ Len(dustParticles) <= MAX_DUST_PARTICLES

\* C7: whenever a tick takes fragments out of a pool that is over its cap,
\* every fragment taken is asleep, and no fragment left in the drawn
\* population is asleep with a settledTime earlier than that of a fragment
\* taken.
C7_OldestSleepingFirst ==
    \A e \in 1 .. Len(evicted) :
        \A m \in 1 .. Len(evicted[e].marked) :
            LET f == evicted[e].marked[m] IN
            /\ f.sleeping
            /\ f.settledTime # NULL
            /\ \A s \in 1 .. Len(evicted[e].spared) :
                   LET r == evicted[e].spared[s] IN
                   r.sleeping /\ r.settledTime # NULL
                       => f.settledTime <= r.settledTime

\* a marking has taken a fragment and left a sleeping one that settled
\* later, which stands before the taken one in the array
C7_Witness ==
    /\ Len(evicted) > 0
    /\ Len(evicted[1].marked) > 0
    /\ evicted[1].spared[1].sleeping
    /\ evicted[1].spared[1].settledTime > evicted[1].marked[1].settledTime
    /\ particles[1] = evicted[1].spared[1]

----------------------------------------------------------------------------
(* Claims about sticky-bomb batches and the falloff of area damage.        *)

\* C11: one detonate-all takes at most the per-building cap of 85 from a
\* building, however many armed bombs lie within the damage radius: the
\* health of every building drops by no more than maxTotalDamage in the
\* step of the detonate button.
C11_BatchWithinCap ==
    [][(\E rnd \in CityRnd : Detonate(rnd))
          => \A k \in 1 .. Len(buildings) :
                 buildings[k].health - buildings'[k].health <= MaxTotalDamage
      ]_vars

\* baseDamage x falloff(d) with exponent p, scaled by materialResistance
\* (in tenths)
FalloffDamage(baseDamage, d, maxDistance, p, resistance) ==
    (ApplyFalloff(baseDamage, d, maxDistance, p) * resistance) \div 10

\* C12: the damage an explosive weapon applies to a building at distance d
\* from the effect centre is baseDamage x falloff(d) scaled by
\* materialResistance, where falloff(d) = (1 - min(1, d / maxDistance)) ^ 3.
\* Stated for the meteor: in the frame in which the meteor explodes and no
\* other weapon acts, every alive building within the damage radius loses
\* exactly that amount (its health stopping at 0).
C12_FalloffDamage ==
    [][/\ Len(meteors) = 1 /\ meteors' = << >>
       /\ bombs = << >> /\ cityEpoch' = cityEpoch
       => \A k \in 1 .. Len(buildings) : \A j \in 1 .. Len(buildings') :
              LET b == buildings[k]
                  d == Abs(b.x - meteors[1].targetX)
              IN  /\ SameBuilding(b, buildings'[j])
                  /\ b.state = "alive"
                  /\ d < MeteorDamageRadius
                  => buildings'[j].health =
                         Max(0, b.health
                                  - FalloffDamage(MeteorBaseDamage, d,
                                                  MeteorDamageRadius, 3,
                                                  b.materialResistance))
      ]_vars

----------------------------------------------------------------------------
(* NuclearBomb.explode called on its own, one bomb at a time, over a city  *)
(* whose buildings have maxHealth 400.                                     *)

\* bomb.explode(y) of a bomb over cell x
NukeBlast(x) ==
    /\ InputEvent
    /\ Commit(nukeExplode(World(CHOOSE r \in QuietRnd : TRUE), NewBomb(x)))
    /\ UNCHANGED << cityEpoch, currentWeapon, currentCityId >>

NextBlast ==
    \/ \E rnd \in CityRnd : GameLoop(FrameInterval, rnd)
    \/ \E x \in Cells : NukeBlast(x)

SpecBlast ==
    /\ \E res \in CityLayouts :
           InitCity(1, UniformLayout(400 * HP), UniformLayout(res))
    /\ [][NextBlast]_vars

\* C13: a nuclear explosion (damage radius 200, base damage 120) centred at
\* distance 0 from a building with health 400, maxHealth 400 and
\* materialResistance 1.0 leaves the building with health 280 and moves its
\* damageStage from 0 to 1.
C13_NukeScenario ==
    [][\A k \in 1 .. Len(buildings) :
          /\ NukeBlast(buildings[k].x)
          /\ buildings[k].health = 400 * HP
          /\ buildings[k].maxHealth = 400 * HP
          /\ buildings[k].materialResistance = 10
          /\ buildings[k].damageStage = 0
          => /\ buildings'[k].health = 280 * HP
             /\ buildings'[k].damageStage = 1
             /\ buildings'[k].previousDamageStage = 0
      ]_vars

\* the explosion has just happened at the centre of an undamaged building
\* of that kind
C13_Witness ==
    /\ dispatched
    /\ \E k \in 1 .. Len(buildings) :
           /\ buildings[k].maxHealth = 400 * HP
           /\ buildings[k].materialResistance = 10
           /\ buildings[k].health = 280 * HP
           /\ buildings[k].damageStage = 1
           /\ buildings[k].previousDamageStage = 0
           /\ buildings[k].lastHitTime = now

----------------------------------------------------------------------------
(* The falloff multiplier.                                                 *)

\* what Building.takeDamage(damage, d, maxDistance = 150) would take from
\* building i in the current state
HealthLoss(i, damage, d) ==
    buildings[i].health
      - takeDamage(World(CHOOSE r \in QuietRnd : TRUE), i, damage, d,
                   DefaultMaxDistance).buildings[i].health

\* C14: for every distance d with 0 <= d <= maxDistance (maxDistance > 0)
\* the falloff multiplier lies in [0, 1], is 1 at d = 0, is 0 at
\* d = maxDistance and never increases as d grows.  Stated of the damage
\* that Building.takeDamage applies to a building that can absorb it, as a
\* share of the damage adjusted by materialResistance, and of the
\* multiplier itself for the exponents 2 (bridge) and 3 (building).
C14_FalloffBounds ==
    /\ \A i \in 1 .. Len(buildings), damage \in DamageSamples :
           LET adjusted == (damage * buildings[i].materialResistance) \div 10
           IN  buildings[i].state = "alive" /\ buildings[i].health >= adjusted
               => /\ HealthLoss(i, damage, 0) = adjusted
                  /\ HealthLoss(i, damage, DefaultMaxDistance) = 0
                  /\ \A d \in 0 .. DefaultMaxDistance :
                         /\ HealthLoss(i, damage, d) >= 0
                         /\ HealthLoss(i, damage, d) <= adjusted
                         /\ \A e \in d .. DefaultMaxDistance :
                                HealthLoss(i, damage, e)
                                    <= HealthLoss(i, damage, d)
    /\ \A maxDistance \in 1 .. NukeDamageRadius, p \in {2, 3},
          v \in DamageSamples :
           /\ ApplyFalloff(v, 0, maxDistance, p) = v
           /\ ApplyFalloff(v, maxDistance, maxDistance, p) = 0
           /\ \A d \in 0 .. maxDistance :
                  /\ ApplyFalloff(v, d, maxDistance, p) \in 0 .. v
                  /\ \A e \in d .. maxDistance :
                         ApplyFalloff(v, e, maxDistance, p)
                             <= ApplyFalloff(v, d, maxDistance, p)

\* takeDamage has just been applied at a distance strictly between 0 and
\* maxDistance: the building lost a part of the adjusted damage
C14_Witness ==
    /\ dispatched
    /\ \E i \in 1 .. Len(buildings), damage \in DamageSamples :
           LET adjusted == (damage * buildings[i].materialResistance) \div 10
               loss == buildings[i].maxHealth - buildings[i].health
           IN  /\ buildings[i].lastHitTime = now
               /\ loss = ApplyFalloff(adjusted, 1, DefaultMaxDistance, 3)
               /\ loss > 0 /\ loss < adjusted

----------------------------------------------------------------------------
(* City 2 under a long series of nuke strikes on the left tower of the     *)
(* bridge: the player selects the nuke and strikes again as soon as the    *)
(* bombs of the last strike have gone off.                                 *)

NextTower ==
    \/ /\ dispatched \/ bombs # << >>
       /\ GameLoopUntil(FrameInterval, CHOOSE r \in QuietRnd : TRUE,
                        180 * FrameInterval)
    \/ currentWeapon = "meteor" /\ SelectWeapon("nuke")
    \/ NukeStrike(BridgeX0 + LeftTowerIndex)

SpecTower == InitBridgeCity /\ [][NextTower]_vars

\* C15: after every mutation the health values lie within [0, max]:
\* Building health, BridgeSegment health and the health of both bridge
\* towers are never negative and never above their maximum.  (The robot's
\* fuel and laser energy, which the claim also names, are not state of the
\* model.)
C15_WithinBounds ==
    /\ \A k \in 1 .. Len(buildings) :
           buildings[k].health \in 0 .. buildings[k].maxHealth
    /\ \A k \in 1 .. Len(bridge.segments) :
           bridge.segments[k].health \in 0 .. bridge.segments[k].maxHealth
    /\ Len(bridge.segments) > 0
       => /\ bridge.leftTowerHealth \in 0 .. TowerHealth
          /\ bridge.rightTowerHealth \in 0 .. TowerHealth

----------------------------------------------------------------------------
(* Claims about weapon switching and city regeneration.                    *)

\* no weapon effect is in flight
NoEffects ==
    /\ meteors = << >> /\ bombs = << >>
    /\ stickyBombs = << >> /\ robotMissiles = << >>
    /\ lasers = << >> /\ tornados = << >>
    /\ robotHandLasers = << >> /\ ufoHandLasers = << >>

\* every debris population is empty
NoDebris ==
    /\ particles = << >> /\ voxelBits = << >> /\ bridgeDebris = << >>
    /\ buildingDebris = << >> /\ microDebris = << >>
    /\ dustParticles = << >>

\* C16: a switch of weapon mode and a regeneration of the city both clear,
\* within the same call, every weapon effect in flight and discard the
\* debris populations of the previous city: after the step of either no
\* meteor, bomb, sticky bomb or missile is left and every debris pool is
\* empty.  (The agent's resource pools, fuel and laser energy, are not
\* state of the model.)
C16_SwitchClears ==
    [][currentWeapon' # currentWeapon \/ cityEpoch' # cityEpoch
          => NoEffects' /\ NoDebris'
      ]_vars

\* the state that one call of generateCity() leaves: the entity lists hold
\* exactly one freshly built city, with its bridge if it has one
FreshCity ==
    /\ NoEffects /\ NoDebris
    /\ \E res \in CityLayouts :
           buildings = LayoutBuildings(cityEpoch,
                                       UniformLayout(BuildingMaxHealth),
                                       UniformLayout(res))
    /\ bridge = LayoutBridge(currentCityId)
    /\ currentCityId = 2
       => /\ bridge.cableBreakSequence = << >>
          /\ bridge.destructionSequence = << >>

\* C17: resetting the city twice in succession yields a state structurally
\* equivalent to resetting it once.  Every call of generateCity(), whether
\* the city it finds has been played on or has only just been generated,
\* ends in the same kind of state: every debris pool is empty, no weapon
\* effect is active, the bridge cascade queues are empty and the entity
\* lists hold exactly one freshly built city.
C17_ResetIdempotent ==
    [][cityEpoch' # cityEpoch => FreshCity']_vars

\* generateCity() has run twice in succession: the reset button was
\* pressed on the city that the call at start-up had just generated,
\* before any frame
C17_Witness ==
    /\ cityEpoch = 1 /\ now = 0 /\ dispatched
    /\ FreshCity

----------------------------------------------------------------------------
(* Claims about the order of calls within a frame.                         *)

\* the calls of the next frame, whatever Math.random() and the physics
\* give in it
NextFrameCalls ==
    { FrameCalls([World(rnd) EXCEPT !.t = now + FrameInterval]) :
          rnd \in CityRnd }

----------------------------------------------------------------------------
(* Claims about sticky bombs and the buildings they are attached to.       *)

\* bomb is attached to a building that is collapsed or is no longer in the
\* list
Dangling(bomb, list) ==
    /\ bomb.attachedBuildingRef # NULL
    /\ ~\E k \in 1 .. Len(list) :
           /\ list[k].id = bomb.attachedBuildingRef
           /\ list[k].state # "collapsed"

\* C19: a sticky bomb never remains attached, past the end of a tick, to a
\* building that is collapsed or no longer in the building list: at the
\* end of every frame each armed bomb that is attached is attached to a
\* building of the list that has not collapsed.
C19_NoDanglingBomb ==
    [][now' # now
          => \A k \in 1 .. Len(stickyBombs') :
                 stickyBombs'[k].isArmed
                     => ~Dangling(stickyBombs'[k], buildings')
      ]_vars

\* C20: when a Building's health reaches 0 while its state is alive, the
\* same takeDamage call moves it to collapsing and detaches every sticky
\* bomb attached to it: after the step in which an alive building's health
\* has come down to 0 the building is collapsing, its collapse has started
\* at that moment, and no sticky bomb refers to it.
C20_CollapseDetaches ==
    [][\A k \in 1 .. Len(buildings) : \A j \in 1 .. Len(buildings') :
          /\ SameBuilding(buildings[k], buildings'[j])
          /\ buildings[k].state = "alive"
          /\ buildings[k].health > 0
          /\ buildings'[j].health = 0
          => /\ buildings'[j].state = "collapsing"
             /\ buildings'[j].collapseStartTime = now'
             /\ \A n \in 1 .. Len(stickyBombs') :
                    /\ stickyBombs'[n].attachedBuildingRef # buildings[k].id
                    /\ stickyBombs'[n].x = buildings[k].x
                       => stickyBombs'[n].attachedTo = NULL
      ]_vars

\* a building on which a sticky bomb had been placed has just started to
\* collapse, and the bomb, still armed, is attached to nothing
C20_Witness ==
    \E k \in 1 .. Len(buildings) : \E n \in 1 .. Len(stickyBombs) :
        /\ buildings[k].state = "collapsing"
        /\ buildings[k].health = 0
        /\ buildings[k].collapseStartTime = now
        /\ stickyBombs[n].isArmed
        /\ stickyBombs[n].x = buildings[k].x
        /\ stickyBombs[n].attachedBuildingRef = NULL
        /\ stickyBombs[n].attachedTo = NULL

----------------------------------------------------------------------------
(* One Particle from its spawn to its sleep.  The vertical motion of        *)
(* Particle.update is computed in hundredths of a pixel and of a pixel per *)
(* frame, the spin in thousandths of a radian per frame; y is the bottom   *)
(* edge of the fragment measured from the ground line                      *)
(* (this.y + this.height - currentGroundY), negative in the air.           *)

Gravity == 60            \* this.gravity = 0.6
Bounciness == 25         \* this.bounciness = 0.25, in hundredths
SettleSpeed == 50        \* Math.abs(this.velocityY) < 0.5
Friction == 85           \* this.friction = 0.85, in hundredths
StopSpin == 10           \* Math.abs(this.angularVelocity) < 0.01
SpawnHeights == {200, 1000, 4000}    \* 2, 10 and 40 px above the ground

\* new Particle(x, y, w, h, color, 0, 0) at a height above the ground;
\* angularVelocity is (Math.random() - 0.5) * 0.3, in thousandths
NewParticle(height, angularVelocity) ==
    [ onGround |-> FALSE, sleeping |-> FALSE, settledTime |-> NULL,
      doNotDraw |-> FALSE, y |-> -height, velocityY |-> 0,
      angularVelocity |-> angularVelocity, bounces |-> 0 ]

\* Particle.update without the bounce: the fragment settles at its first
\* contact with the ground
particleUpdateNoBounce(f, t) ==
    LET velocityY == f.velocityY + Gravity
        y == f.y + velocityY
        slowed == (f.angularVelocity * Friction) \div 100
        spin == IF slowed < StopSpin THEN 0 ELSE slowed
    IN  IF f.onGround
        THEN [f EXCEPT !.angularVelocity = spin,
                       !.settledTime = IF @ = NULL /\ spin = 0 THEN t
                                       ELSE @]
        ELSE IF y >= 0
             THEN [f EXCEPT !.y = 0, !.velocityY = 0, !.onGround = TRUE,
                            !.angularVelocity = (@ * 6) \div 10]
        ELSE [f EXCEPT !.y = y, !.velocityY = velocityY]

\* Particle.update in a city without a bridge, for a fragment that moves
\* in the vertical only: on the ground friction slows the spin and
\* settledTime is recorded once the fragment is still; in the air gravity,
\* the ground collision and the bounce
particleUpdate(f, t) ==
    LET velocityY == f.velocityY + Gravity
        y == f.y + velocityY
        rebound == (velocityY * Bounciness) \div 100
        slowed == (f.angularVelocity * Friction) \div 100
        spin == IF slowed < StopSpin THEN 0 ELSE slowed
    IN  IF f.onGround
        THEN [f EXCEPT !.angularVelocity = spin,
                       !.settledTime = IF @ = NULL /\ spin = 0 THEN t
                                       ELSE @]
        ELSE IF y >= 0
             THEN IF rebound < SettleSpeed
                  THEN [f EXCEPT !.y = 0, !.velocityY = 0,
                                 !.onGround = TRUE,
                                 !.angularVelocity = (@ * 6) \div 10]
                  ELSE [f EXCEPT !.y = 0, !.velocityY = -rebound,
                                 !.angularVelocity = (@ * 6) \div 10,
                                 !.bounces = @ + 1]
        ELSE [f EXCEPT !.y = y, !.velocityY = velocityY]

\* a burst of n fragments released at rest at one height, as the first
\* thing that happens in the city
SpawnAtRest(n, height, angularVelocity) ==
    /\ now = 0
    /\ ~dispatched
    /\ particles = << >>
    /\ particles' = PushN(<< >>, NewParticle(height, angularVelocity), n)
    /\ dispatched' = TRUE
    /\ UNCHANGED << now, cityEpoch, currentWeapon, currentCityId, buildings,
                    stickyBombs, meteors, bombs, robotMissiles, voxelBits,
                    bridgeDebris, buildingDebris, microDebris,
                    dustParticles, bridge, waterWaves, robot, robotControls,
                    ufo, ufoControls, targeted, evicted,
                    lasers, tornados, robotHandLasers, ufoHandLasers,
                    pointerActive, pointerPosition >>

\* gameLoop with the particle loop run on the moving fragments: the sleep
\* check, Particle.update unless asleep, and the over-cap marking
FallTick(dt) ==
    LET W == [World(CHOOSE r \in QuietRnd : TRUE) EXCEPT !.t = now + dt]
        updated == [k \in 1 .. Len(particles) |->
                       LET f == sleepCheck(particles[k], W.t) IN
                       IF f.sleeping THEN f ELSE particleUpdate(f, W.t)]
        r == MarkOldestSleeping("particles", updated, MAX_PARTICLES)
    IN  /\ particles # << >>
        /\ W.t <= 24 * FrameInterval + 2 * LongPause
        /\ Commit([Frame([W EXCEPT !.particles = << >>])
                      EXCEPT !.particles = r.pool, !.evicted = @ \o r.log])
        /\ dispatched' = FALSE
        /\ UNCHANGED << cityEpoch, currentWeapon, currentCityId >>

NextFall ==
    \/ \E n \in {1, MAX_PARTICLES + 1}, height \in SpawnHeights,
          angularVelocity \in {0, 150} :
           SpawnAtRest(n, height, angularVelocity)
    \/ \E dt \in {FrameInterval, LongPause} : FallTick(dt)

SpecFall == Init /\ [][NextFall]_vars

\* C21: a fragment released at rest above the ground stays in the air, at
\* or above the ground line, until a contact whose rebound is below the
\* settle threshold puts it on the ground; a harder contact sends it up
\* again.  On the ground its spin dies down, it records settledTime in the
\* update that finds it still, and keeps that value; it is asleep exactly
\* from the first tick that finds more than SLEEP_DELAY gone since
\* settledTime; and doNotDraw is set on fragments of a pool that is over
\* its cap only.
C21_FragmentLifecycle ==
    [][now' # now
         => \A k \in 1 .. Len(particles) :
                LET f == particles[k]
                    g == particles'[k]
                    impact == f.velocityY + Gravity
                    contact == f.y + impact >= 0
                    soft == impact * Bounciness < SettleSpeed * 100
                IN  /\ g.y <= 0
                    /\ ~f.onGround
                         => /\ g.onGround <=> contact /\ soft
                            /\ contact /\ ~soft
                                 => g.y = 0 /\ -g.velocityY >= SettleSpeed
                            /\ ~contact => /\ g.velocityY > f.velocityY
                                            /\ g.y = f.y + g.velocityY
                            /\ g.settledTime = NULL
                            /\ ~g.sleeping
                    /\ f.onGround
                         => /\ g.onGround /\ g.y = 0 /\ g.velocityY = 0
                            /\ g.angularVelocity < f.angularVelocity
                                   \/ g.angularVelocity = 0
                            /\ g.settledTime =
                                   IF f.settledTime # NULL THEN f.settledTime
                                   ELSE IF g.angularVelocity = 0 THEN now'
                                   ELSE NULL
                            /\ g.sleeping
                                 <=> /\ f.settledTime # NULL
                                     /\ \/ f.sleeping
                                        \/ now' - f.settledTime > SLEEP_DELAY
                    /\ g.doNotDraw => Len(particles') > MAX_PARTICLES
      ]_vars

\* a single spinning fragment has come down from above, bounced, settled
\* some frames after it came to the ground and gone to sleep more than
\* SLEEP_DELAY later, and it is still drawn
C21_Witness ==
    /\ Len(particles) = 1
    /\ particles[1].bounces > 0
    /\ particles[1].sleeping
    /\ particles[1].settledTime # NULL
    /\ particles[1].settledTime > (particles[1].bounces + 3) * FrameInterval
    /\ now - particles[1].settledTime > SLEEP_DELAY
    /\ ~particles[1].doNotDraw

----------------------------------------------------------------------------
(* Claims about the damage stage and the city layout.                      *)

\* C22: in every state the damageStage of every Building of the list is
\* the one that its health/maxHealth fixes: 0 above 75%, 1 above 50% and
\* up to 75%, 2 above 20% and up to 50%, 3 at 20% or below, health 0
\* included.
C22_StageFromHealth ==
    \A k \in 1 .. Len(buildings) :
        LET b == buildings[k]
            percent == (100 * b.health) \div b.maxHealth
            exact == (100 * b.health) % b.maxHealth = 0
        IN  b.damageStage =
                IF percent > 75 \/ (percent = 75 /\ ~exact) THEN 0
                ELSE IF percent > 50 \/ (percent = 50 /\ ~exact) THEN 1
                ELSE IF percent > 20 \/ (percent = 20 /\ ~exact) THEN 2
                ELSE 3

\* one building stands at exactly 20% of its health, in stage 3, and
\* another is damaged less, in stage 1 or 2
C22_Witness ==
    \E k, j \in 1 .. Len(buildings) :
        /\ buildings[k].state = "alive"
        /\ buildings[k].health * 5 = buildings[k].maxHealth
        /\ buildings[k].damageStage = 3
        /\ buildings[j].state = "alive"
        /\ buildings[j].damageStage \in {1, 2}
        /\ buildings[j].health < buildings[j].maxHealth

\* C23: buildCityLayout is pure generation: called for any cityId in any
\* state, it returns the new buildings and structures and leaves every
\* entity list and every other global of the simulation as it found them.
C23_PureLayout ==
    \A cityId \in 1 .. 3, res \in CityLayouts :
        LET W == World(CHOOSE r \in QuietRnd : TRUE)
            layout == buildCityLayout(W, cityId, cityEpoch + 1,
                                      UniformLayout(BuildingMaxHealth),
                                      UniformLayout(res))
        IN  layout.globals = W

----------------------------------------------------------------------------
(* Claims about the break cascade of the bridge.                           *)

\* C24: over the life of a bridge the break handling of onSegmentBroken
\* (physics, joints, cascade scheduling, debris burst) has run at most once
\* for each segment, whether damage or a queued entry broke it.
C24_BreakHandledOnce ==
    \A k \in 1 .. Len(bridge.segments) : bridge.segments[k].breaks <= 1


\* the entries of a break queue that a tick at time t executes
DueBreaks(queue, t) ==
    {e \in 1 .. Len(queue) : t >= queue[e].breakTime}

\* C25: what a queued break schedules during the tick that executes it is
\* in the queue after that tick.  When Bridge.update executes the entry of
\* a segment within one index of the middle, each neighbour of the segment
\* that is in service after the tick has an entry in destructionSequence;
\* when it executes the entry of a hanger, each unbroken hanger within
\* three places of it has an entry in cableBreakSequence.
C25_CascadeContinues ==
    [][now' # now /\ cityEpoch' = cityEpoch /\ Len(bridge.segments) > 0
         => /\ \A e \in DueBreaks(bridge.destructionSequence, now') :
                   LET k == bridge.destructionSequence[e].segment IN
                   IsMiddle(k) /\ bridge.segments[k + 1].state # "broken"
                       => \A n \in {k - 1, k + 1} \cap SegmentIndices :
                              InService(bridge'.segments[n + 1])
                                  => \E q \in 1 ..
                                         Len(bridge'.destructionSequence) :
                                         bridge'.destructionSequence[q].segment
                                             = n
            /\ \A e \in DueBreaks(bridge.cableBreakSequence, now') :
                   LET h == bridge.cableBreakSequence[e].hanger IN
                   ~bridge.hangers[h + 1].broken
                       => \A n \in SegmentIndices :
                              /\ Abs(n - h) <= 3
                              /\ ~bridge'.hangers[n + 1].broken
                              => \E q \in 1 ..
                                     Len(bridge'.cableBreakSequence) :
                                     bridge'.cableBreakSequence[q].hanger = n
      ]_vars


----------------------------------------------------------------------------
(* The bridge under direct hits that stop a few frames before the horizon, *)
(* with the frames that follow them: requestAnimationFrame keeps calling   *)
(* gameLoop, so every entry that was queued comes due in some frame.       *)

DrainHorizon == MaxTime + 4 * FrameInterval

DrainTick ==
    GameLoopUntil(FrameInterval, CHOOSE r \in QuietRnd : TRUE, DrainHorizon)

NextDrain ==
    \/ DrainTick
    \/ /\ now + FrameInterval <= MaxTime
       /\ \E k \in SegmentIndices, damage \in SegmentDamageSamples,
             rnd \in QuietRnd : SegmentDamage(k, damage, rnd)

\* the step of the clock that a frame takes; DrainTick is the only action
\* that moves the clock, so a clock step is a frame of the game loop
ClockStep ==
    /\ now + FrameInterval <= DrainHorizon
    /\ now' = now + FrameInterval

\* requestAnimationFrame keeps scheduling the game loop: the frame is taken
\* again and again for as long as the clock is short of the horizon
SpecDrain ==
    /\ InitBridgeCity
    /\ [][NextDrain]_vars
    /\ WF_now(ClockStep)

\* C26: once no further break is triggered, the ticks that follow empty
\* both break queues of the bridge: every entry is removed some tick after
\* its break time has passed and none stays queued for good.
C26_QueuesDrain ==
    <>[](/\ bridge.destructionSequence = << >>
         /\ bridge.cableBreakSequence = << >>)


-----------------------------------------------------------------------------
(* The tractor beam over evicted fragments.                                *)

BeamMaxTime == PoolMaxTime + 2 * FrameInterval

\* the sparks come down at once; the beam covers the resting particles or
\* misses them
BeamRnd ==
    Rnd({FALSE}, {0}, {TRUE}, {2}, {3}, {NULL}, {FALSE}, {FALSE, TRUE})

BeamTick(rnd) ==
    \E dt \in {FrameInterval, LongPause} : GameLoopUntil(dt, rnd, BeamMaxTime)

\* the player fires the robot's missiles, changes to the UFO and stays
\* with it
NextBeam ==
    \/ \E rnd \in BeamRnd : BeamTick(rnd)
    \/ \E weapon \in {"robot", "ufo"} :
          currentWeapon # "ufo" /\ SelectWeapon(weapon)
    \/ PoolKeyMissile
    \/ \E held \in BOOLEAN : KeyTractor(held)

SpecBeam == Init /\ [][NextBeam]_vars

\* C27: a particle that was marked doNotDraw for capacity is still in the
\* pool after a frame, and a frame in which the UFO's tractor beam is on and
\* covers the resting particles leaves it drawn and awake again.
C27_EvictedReactivated ==
    [][\A rnd \in BeamRnd :
          /\ BeamTick(rnd)
          /\ rnd.beamed
          /\ currentWeapon = "ufo" /\ ufo.present /\ ufoControls.tractor
          => /\ Len(particles') >= Len(particles)
             /\ \A k \in 1 .. Len(particles) :
                   particles[k].doNotDraw
                       => /\ ~particles'[k].doNotDraw
                          /\ ~particles'[k].sleeping]_vars


-----------------------------------------------------------------------------
(* City 2: sticky bombs placed on the banks and along the deck, and the    *)
(* detonate button.                                                        *)

NextStickyBridge ==
    \/ \E rnd \in BridgeRnd : GameLoop(FrameInterval, rnd)
    \/ SelectWeapon("sticky")
    \/ \E x \in Cells \cup BridgeCells : PlaceStickyBomb(x)
    \/ \E rnd \in QuietRnd : Detonate(rnd)

SpecStickyBridge == InitBridgeCity /\ [][NextStickyBridge]_vars

\* C28: in the city with the bridge, the detonate button takes health off
\* every deck segment in service that lies within the damage radius of an
\* armed sticky bomb.
C28_DetonateDamagesBridge ==
    [][\A rnd \in QuietRnd :
          Detonate(rnd) /\ currentCityId = 2 /\ bridge # NoBridge
          => \A k \in 1 .. Len(bridge.segments) :
                (/\ InService(bridge.segments[k])
                 /\ \E b \in 1 .. Len(stickyBombs) :
                       /\ stickyBombs[b].isArmed
                       /\ Abs(bridge.segments[k].x - stickyBombs[b].x)
                              < StickyDamageRadius)
                => bridge'.segments[k].health
                       < bridge.segments[k].health]_vars


-----------------------------------------------------------------------------
(* City 2: one Particle released over the bank or over the deck of the     *)
(* intact bridge.  The deck's top edge lies below the ground line           *)
(* (bridgeY = waterY - 15 = groundY + 5).                                   *)

DeckTop == 500           \* structure.y - groundY: waterY - 15 with waterY = groundY + 20
DeckBand == 1700         \* segment.h + 5, with bridgeHeight = 12
DeckHorizon == 60 * FrameInterval

\* new Particle(...) whose centre is over deck segment `over` of the bridge
\* (a JavaScript index), or over the bank when `over` is NULL
NewParticleOver(height, angularVelocity, over) ==
    [ onGround |-> FALSE, sleeping |-> FALSE, settledTime |-> NULL,
      doNotDraw |-> FALSE, y |-> -height, velocityY |-> 0,
      angularVelocity |-> angularVelocity, bounces |-> 0, over |-> over ]

\* the test of the bridge block at the top of Particle.update: the bottom
\* edge of the fragment lies within the band of a segment that is not
\* 'broken'; swayOffset is 0 while no cable has broken
TouchesSegment(f, segments) ==
    /\ f.over # NULL
    /\ segments[f.over + 1].state # "broken"
    /\ f.y >= DeckTop
    /\ f.y <= DeckTop + DeckBand

\* Particle.update in city 2: the bridge block puts a fragment that touches
\* a segment back on the deck, reverses and damps its velocity, and
\* returns; otherwise the update of the other cities runs, with the fragment
\* placed on the deck instead of the ground line when the ground collision
\* finds it over the bridge and within the band of the deck
particleUpdateCity2(f, t, segments) ==
    LET v == (-f.velocityY * Bounciness) \div 100
        g == particleUpdate(f, t)
        landed == /\ ~f.onGround
                  /\ g.y = 0 /\ f.y + f.velocityY + Gravity >= 0
                  /\ f.over # NULL
                  /\ f.y + f.velocityY + Gravity >= DeckTop
                  /\ f.y + f.velocityY + Gravity <= DeckTop + DeckBand
    IN  IF TouchesSegment(f, segments)
        THEN [f EXCEPT !.y = DeckTop,
                       !.velocityY = IF Abs(v) < SettleSpeed THEN 0 ELSE v,
                       !.onGround = @ \/ Abs(v) < SettleSpeed,
                       !.angularVelocity = (@ * 6) \div 10]
        ELSE IF landed THEN [g EXCEPT !.y = DeckTop]
        ELSE g

\* a fragment released at rest over the bank or over a deck segment, as the
\* first thing that happens in the city
SpawnOver(height, angularVelocity, over) ==
    /\ now = 0
    /\ ~dispatched
    /\ particles = << >>
    /\ bridge # NoBridge
    /\ particles' = << NewParticleOver(height, angularVelocity, over) >>
    /\ dispatched' = TRUE
    /\ UNCHANGED << now, cityEpoch, currentWeapon, currentCityId, buildings,
                    stickyBombs, meteors, bombs, robotMissiles, voxelBits,
                    bridgeDebris, buildingDebris, microDebris,
                    dustParticles, bridge, waterWaves, robot, robotControls,
                    ufo, ufoControls, targeted, evicted,
                    lasers, tornados, robotHandLasers, ufoHandLasers,
                    pointerActive, pointerPosition >>

\* gameLoop in city 2 with the particle loop run on the moving fragment
DeckTick ==
    LET W == [World(CHOOSE r \in QuietRnd : TRUE)
                 EXCEPT !.t = now + FrameInterval]
        updated == [k \in 1 .. Len(particles) |->
                       LET f == sleepCheck(particles[k], W.t) IN
                       IF f.sleeping THEN f
                       ELSE particleUpdateCity2(f, W.t, bridge.segments)]
        r == MarkOldestSleeping("particles", updated, MAX_PARTICLES)
    IN  /\ W.t <= DeckHorizon
        /\ Commit([Frame([W EXCEPT !.particles = << >>])
                      EXCEPT !.particles = r.pool, !.evicted = @ \o r.log])
        /\ dispatched' = FALSE
        /\ UNCHANGED << cityEpoch, currentWeapon, currentCityId >>

NextDeck ==
    \/ \E height \in SpawnHeights, angularVelocity \in {0, 150},
          over \in {NULL} \cup SegmentIndices :
           SpawnOver(height, angularVelocity, over)
    \/ DeckTick

\* the step of the clock that a frame takes in NextDeck
DeckClockStep ==
    /\ now + FrameInterval <= DeckHorizon
    /\ now' = now + FrameInterval

\* requestAnimationFrame keeps scheduling the game loop
SpecDeck ==
    /\ InitBridgeCity
    /\ [][NextDeck]_vars
    /\ WF_now(DeckClockStep)

\* C29: a fragment that has come to rest, on the ground or on a deck
\* segment of the intact bridge, has its settledTime recorded and is asleep
\* some time later.
C29_RestingFragmentsSleep ==
    [](/\ particles # << >>
       /\ particles[1].onGround
       => <>(/\ particles # << >>
             /\ particles[1].settledTime # NULL
             /\ particles[1].sleeping))

----------------------------------------------------------------------------
(* The weapon effects: lasers, tornados and the beams of the robot and of  *)
(* the UFO, next to the meteors, the bombs and the missiles.               *)

\* createLaserStrike(x, y)
createLaserStrike(W, x) == [W EXCEPT !.lasers = Append(@, NewLaser(W.t, x))]

\* createTornadoStrike(x, y)
createTornadoStrike(W, x, duration) ==
    IF Len(W.tornados) >= MAX_TORNADOS THEN W
    ELSE [W EXCEPT !.tornados = Append(@, NewTornado(W.t, x, duration))]

\* handlePointer in laser mode
LaserStrike(x) ==
    /\ InputEvent
    /\ currentWeapon = "laser"
    /\ x \in PointerCells
    /\ Len(lasers) < MaxLasers
    /\ Commit(createLaserStrike(World(CHOOSE r \in QuietRnd : TRUE), x))
    /\ UNCHANGED << cityEpoch, currentWeapon, currentCityId >>

\* handlePointer in tornado mode
TornadoStrike(x, duration) ==
    /\ InputEvent
    /\ currentWeapon = "tornado"
    /\ x \in PointerCells
    /\ Commit(createTornadoStrike(World(CHOOSE r \in QuietRnd : TRUE), x,
                                  duration))
    /\ UNCHANGED << cityEpoch, currentWeapon, currentCityId >>

\* handlePointerDown followed by handlePointer, in robot mode
PointerDown(x) ==
    /\ InputEvent
    /\ currentWeapon = "robot"
    /\ x \in PointerCells
    /\ Commit([World(CHOOSE r \in QuietRnd : TRUE) EXCEPT
                  !.robot = IF robot.present
                            THEN [robot EXCEPT !.laserFiring = TRUE]
                            ELSE robot,
                  !.pointerPosition = x,
                  !.pointerActive = TRUE])
    /\ UNCHANGED << cityEpoch, currentWeapon, currentCityId >>

\* handlePointerUp
PointerUp ==
    /\ InputEvent
    /\ currentWeapon = "robot"
    /\ robot.present /\ robot.laserFiring
    /\ Commit([World(CHOOSE r \in QuietRnd : TRUE) EXCEPT
                  !.robot.laserFiring = FALSE])
    /\ UNCHANGED << cityEpoch, currentWeapon, currentCityId >>

\* handlePointerMove
PointerMove(x) ==
    /\ InputEvent
    /\ currentWeapon \in {"robot", "ufo"}
    /\ x \in PointerCells
    /\ ~pointerActive \/ x # pointerPosition
    /\ Commit([World(CHOOSE r \in QuietRnd : TRUE) EXCEPT
                  !.pointerPosition = x,
                  !.pointerActive = TRUE])
    /\ UNCHANGED << cityEpoch, currentWeapon, currentCityId >>

\* keydown / keyup 'r' and 't' in robot mode
KeyArm(side, held) ==
    /\ InputEvent
    /\ currentWeapon = "robot"
    /\ Commit([World(CHOOSE r \in QuietRnd : TRUE) EXCEPT
                  !.robotControls.rightArmFire =
                      IF side = "right" THEN held ELSE @,
                  !.robotControls.leftArmFire =
                      IF side = "left" THEN held ELSE @])
    /\ robotControls' # robotControls
    /\ UNCHANGED << cityEpoch, currentWeapon, currentCityId >>

\* keydown / keyup 'e' in UFO mode
KeyUfoLaser(held) ==
    /\ InputEvent
    /\ currentWeapon = "ufo"
    /\ held # ufoControls.laser
    /\ Commit([World(CHOOSE r \in QuietRnd : TRUE) EXCEPT
                  !.ufoControls.laser = held])
    /\ UNCHANGED << cityEpoch, currentWeapon, currentCityId >>

EffectWeapons == Weapons \cup {"laser", "tornado"}

\* the player's input ends at EffectInputTime; the frames go on until every
\* effect created by then has had its whole duration
EffectInputTime == 3 * ShortFrame
EffectsHorizon == EffectInputTime + MaxTornadoDuration + 2 * FrameInterval

EffectTick ==
    GameLoopUntil(ShortFrame, CHOOSE r \in QuietRnd : TRUE, EffectsHorizon)

EffectInput ==
    \/ \E weapon \in EffectWeapons : SelectWeapon(weapon)
    \/ \E x \in EffectCells : MeteorStrike(x)
    \/ \E x \in EffectCells : NukeStrike(x)
    \/ \E x \in EffectCells : LaserStrike(x)
    \/ \E x \in EffectCells, duration \in TornadoDurations :
           TornadoStrike(x, duration)
    \/ KeyMissile
    \/ \E x \in EffectCells : PointerDown(x)
    \/ PointerUp
    \/ \E x \in EffectCells : PointerMove(x)
    \/ \E side \in {"left", "right"}, held \in BOOLEAN : KeyArm(side, held)
    \/ \E held \in BOOLEAN : KeyUfoLaser(held)

NextEffects ==
    \/ EffectTick
    \/ now <= EffectInputTime /\ EffectInput

EffectClockStep ==
    /\ now + ShortFrame <= EffectsHorizon
    /\ now' = now + ShortFrame

SpecEffects == Init /\ [][NextEffects]_vars /\ WF_now(EffectClockStep)

----------------------------------------------------------------------------
(* Claims about the life of the weapon effects.                            *)

\* an instance created at time s is on the list
Since(list, s) == \E i \in DOMAIN list : list[i].startTime = s

\* every instance on a list has part of its budget left: its age is below
\* its duration, its lifetime below the maximum, its fall not yet over
EffectsWithinBudget ==
    /\ \A i \in DOMAIN meteors :
           now - meteors[i].startTime \in 0 .. MeteorTravelTime - 1
    /\ \A i \in DOMAIN bombs : bombs[i].fall \in 0 .. NukeFallFrames
    /\ \A i \in DOMAIN lasers :
           now - lasers[i].startTime \in 0 .. LaserDuration - 1
    /\ \A i \in DOMAIN tornados :
           /\ tornados[i].duration <= MaxTornadoDuration
           /\ now - tornados[i].startTime \in 0 .. tornados[i].duration - 1
    /\ \A i \in DOMAIN robotMissiles :
           robotMissiles[i].lifetime \in 0 .. MissileMaxLifetime - 1
    /\ \A i \in DOMAIN robotHandLasers :
           now - robotHandLasers[i].startTime \in 0 .. HandLaserDuration - 1
    /\ \A i \in DOMAIN ufoHandLasers :
           now - ufoHandLasers[i].startTime \in 0 .. UfoLaserDuration - 1

\* the times by which the frames that follow still cover a whole duration
EffectStarts == 0 .. EffectsHorizon - MaxTornadoDuration

\* C30: every meteor, nuclear bomb, laser, tornado, missile, hand-laser beam
\* and UFO-laser beam has only a bounded budget of ticks while it is on its
\* list, and each of them is taken off its list in the end
C30_EffectsTerminate ==
    /\ []EffectsWithinBudget
    /\ \A s \in EffectStarts :
           /\ Since(meteors, s) ~> ~Since(meteors, s)
           /\ Since(lasers, s) ~> ~Since(lasers, s)
           /\ Since(tornados, s) ~> ~Since(tornados, s)
           /\ Since(robotHandLasers, s) ~> ~Since(robotHandLasers, s)
           /\ Since(ufoHandLasers, s) ~> ~Since(ufoHandLasers, s)
    /\ bombs # << >> ~> bombs = << >>
    /\ robotMissiles # << >> ~> robotMissiles = << >>

\* a tornado of the longest duration is in the last tick of its life
C30_Witness ==
    \E i \in DOMAIN tornados :
        /\ tornados[i].duration = MaxTornadoDuration
        /\ now - tornados[i].startTime = MaxTornadoDuration - 1

----------------------------------------------------------------------------
(* Buildings are damaged for a while; the frames go on until every         *)
(* collapse that was started has had its whole duration.                   *)

CollapseTick == \E rnd \in CityRnd : GameLoopUntil(FrameInterval, rnd, DrainHorizon)

NextCollapse ==
    \/ CollapseTick
    \/ /\ now + FrameInterval <= MaxTime
       /\ \E i \in BuildingIds, damage \in DamageSamples,
             distance \in DistanceSamples : DirectDamage(i, damage, distance)

SpecCollapse == Init /\ [][NextCollapse]_vars /\ WF_now(ClockStep)

\* the building with this id is on the list in this state
InState(id, state) ==
    \E i \in DOMAIN buildings :
        buildings[i].id = id /\ buildings[i].state = state

OnList(id) == \E i \in DOMAIN buildings : buildings[i].id = id

\* C31: a tick takes a collapsing building to collapsed exactly when its
\* collapseDuration has elapsed and takes a collapsed building off the
\* list; with the ticks running, every collapsing building becomes
\* collapsed and every collapsed building leaves the list.
C31_CollapseCompletes ==
    /\ [][now' # now
            => \A i \in DOMAIN buildings :
                   LET b == buildings[i] IN
                   /\ b.state = "collapsed"
                      => ~\E j \in DOMAIN buildings' :
                              SameBuilding(buildings'[j], b)
                   /\ b.state = "collapsing"
                      => \E j \in DOMAIN buildings' :
                             /\ SameBuilding(buildings'[j], b)
                             /\ buildings'[j].state =
                                    IF now' - b.collapseStartTime
                                           >= b.collapseDuration
                                    THEN "collapsed" ELSE "collapsing"]_vars
    /\ \A id \in BuildingIds :
           /\ InState(id, "collapsing") ~> InState(id, "collapsed")
           /\ InState(id, "collapsed") ~> ~OnList(id)

\* a building has collapsed and has been taken off the list
C31_Witness ==
    /\ cityEpoch = 0
    /\ Len(buildings) < NumBuildings
    /\ \E i \in DOMAIN buildings : buildings[i].state = "collapsed"

----------------------------------------------------------------------------
(* Claims about the timing of the cascade.                                 *)

\* C32: the entries that the break of segment k queues are due at the base
\* delay plus one stagger step per position between their segment and k, so
\* that of two queued neighbours the one nearer to k is never due later
\* than the one farther away.
C32_StaggerByOffset ==
    [][\A k \in SegmentIndices :
           /\ Len(bridge.segments) > 0
           /\ InService(bridge.segments[k + 1])
           /\ ~InService(bridge'.segments[k + 1])
           /\ \E rnd \in QuietRnd, damage \in SegmentDamageSamples :
                  SegmentDamage(k, damage, rnd)
           => LET queued == Appended(bridge.destructionSequence,
                                     bridge'.destructionSequence)
              IN  /\ \E base \in BreakDelays :
                         \A e \in 1 .. Len(queued) :
                             queued[e].breakTime
                                 = now' + base + Abs(queued[e].segment - k)
                  /\ \A e, f \in 1 .. Len(queued) :
                         Abs(queued[e].segment - k)
                             < Abs(queued[f].segment - k)
                         => queued[e].breakTime <= queued[f].breakTime
      ]_vars

----------------------------------------------------------------------------
(* Claims about the joints of the deck.                                    *)

\* C33: while the Bridge is the bridge of the city a joint that is broken
\* stays broken, and no update applies the spring force of a broken joint
\* to its segment.
C33_BrokenJointInert ==
    /\ [][cityEpoch' = cityEpoch
            => \A k \in 1 .. Len(bridge.segments) :
                   /\ bridge.segments[k].leftJoint = "broken"
                      => bridge'.segments[k].leftJoint = "broken"
                   /\ bridge.segments[k].rightJoint = "broken"
                      => bridge'.segments[k].rightJoint = "broken"]_vars
    /\ [](\A k \in 1 .. Len(bridge.segments) :
              /\ bridge.segments[k].leftJoint = "broken"
                 => ~bridge.segments[k].leftPull
              /\ bridge.segments[k].rightJoint = "broken"
                 => ~bridge.segments[k].rightPull)

----------------------------------------------------------------------------
(* The UFO with its tractor beam over buildings that are being damaged.    *)

NextTractor ==
    \/ GameLoop(FrameInterval, CHOOSE r \in QuietRnd : TRUE)
    \/ SelectWeapon("ufo")
    \/ \E held \in BOOLEAN : KeyTractor(held)
    \/ \E i \in BuildingIds, damage \in DamageSamples,
          distance \in DistanceSamples : DirectDamage(i, damage, distance)

SpecTractor == Init /\ [][NextTractor]_vars

\* C34: a tick adds cutouts to a building, and takes health off it through
\* the tractor beam, only if the building is alive and within the radius of
\* the beam of the UFO; a building that is collapsing or collapsed keeps
\* its cutouts and its health.
C34_TractorOnlyIntact ==
    [][now' # now
         => \A i \in DOMAIN buildings, j \in DOMAIN buildings' :
                SameBuilding(buildings[i], buildings'[j])
                    /\ (\/ buildings'[j].voxelCutouts
                               # buildings[i].voxelCutouts
                        \/ buildings'[j].health # buildings[i].health)
                => /\ buildings[i].state = "alive"
                   /\ ufo.present
                   /\ Abs(buildings[i].x - ufo.x) < TractorRadius
      ]_vars

----------------------------------------------------------------------------
(* The tractor beam over falling and resting fragments.  A Particle has the *)
(* velocity properties velocityX and velocityY, which Particle.update      *)
(* integrates; vx and vy are properties that its constructor does not      *)
(* define.                                                                  *)

TractorPull == 15        \* pullStrength = 0.15 * tractorStrengthMultiplier

\* new Particle(x, y, w, h, color, 0, 0) at a height under the UFO
NewParticleFree(height, angularVelocity) ==
    [ onGround |-> FALSE, sleeping |-> FALSE, settledTime |-> NULL,
      doNotDraw |-> FALSE, y |-> -height, velocityY |-> 0,
      angularVelocity |-> angularVelocity, bounces |-> 0,
      vx |-> "undefined", vy |-> "undefined" ]

\* the two particle loops of applyTractorBeam for one fragment: the first
\* wakes it and lists it, the second adds the pull to vx and vy of a listed
\* fragment and damps them; undefined + pull is NaN and NaN * 0.95 is NaN
tractorPull(f, beamed) ==
    IF ~f.doNotDraw /\ beamed
    THEN [tractorWake(f, beamed) EXCEPT !.vx = "NaN", !.vy = "NaN"]
    ELSE f

\* the physics step of gameLoop for one fragment
PhysicsStep(f, t) ==
    LET g == sleepCheck(f, t) IN
    IF g.sleeping THEN g ELSE particleUpdate(g, t)

SpawnFree(height, angularVelocity) ==
    /\ now = 0
    /\ ~dispatched
    /\ particles = << >>
    /\ particles' = << NewParticleFree(height, angularVelocity) >>
    /\ dispatched' = TRUE
    /\ UNCHANGED << now, cityEpoch, currentWeapon, currentCityId, buildings,
                    stickyBombs, meteors, bombs, robotMissiles, voxelBits,
                    bridgeDebris, buildingDebris, microDebris,
                    dustParticles, bridge, waterWaves, robot, robotControls,
                    ufo, ufoControls, targeted, evicted,
                    lasers, tornados, robotHandLasers, ufoHandLasers,
                    pointerActive, pointerPosition >>

\* UFO.update finds the tractor beam on in the coming frame
TractorOn == currentWeapon = "ufo" /\ ufo.present /\ ufoControls.tractor

PullHorizon == 8 * FrameInterval + 2 * LongPause

\* gameLoop with the particle loops run on the moving fragments:
\* applyTractorBeam from ufo.update, then the sleep check and
\* Particle.update, then the over-cap marking; beamed says whether the
\* fragments lie within tractorRadius of the beam
PullTick(dt, beamed) ==
    LET W == [World(CHOOSE r \in QuietRnd : TRUE) EXCEPT !.t = now + dt]
        pulled == [k \in 1 .. Len(particles) |->
                      IF TractorOn THEN tractorPull(particles[k], beamed)
                      ELSE particles[k]]
        updated == [k \in 1 .. Len(particles) |->
                       PhysicsStep(pulled[k], W.t)]
        r == MarkOldestSleeping("particles", updated, MAX_PARTICLES)
    IN  /\ W.t <= PullHorizon
        /\ Commit([Frame([W EXCEPT !.particles = << >>])
                      EXCEPT !.particles = r.pool, !.evicted = @ \o r.log])
        /\ dispatched' = FALSE
        /\ UNCHANGED << cityEpoch, currentWeapon, currentCityId >>

NextPull ==
    \/ \E height \in SpawnHeights, angularVelocity \in {0, 150} :
           SpawnFree(height, angularVelocity)
    \/ SelectWeapon("ufo")
    \/ \E held \in BOOLEAN : KeyTractor(held)
    \/ \E dt \in {FrameInterval, LongPause}, beamed \in BOOLEAN :
           PullTick(dt, beamed)

SpecPull == Init /\ [][NextPull]_vars

\* C35: in a frame with the tractor beam on, a fragment within its radius
\* that is not asleep ends the frame with a vertical velocity above (more
\* upward than) the velocity that its physics step gives it without the
\* beam, and a fragment that is asleep is awake after the frame.
C35_TractorPullsAndWakes ==
    [][\A dt \in {FrameInterval, LongPause} :
          PullTick(dt, TRUE) /\ TractorOn
          => \A k \in 1 .. Len(particles) :
                 /\ ~particles[k].sleeping
                    => particles'[k].velocityY
                           < PhysicsStep(particles[k], now').velocityY
                 /\ particles[k].sleeping => ~particles'[k].sleeping
      ]_vars

----------------------------------------------------------------------------
\* C36: the robot and the UFO are never both held, and a switch of the
\* weapon mode to robot or ufo leaves in that agent's slot a freshly
\* constructed instance, or nothing until the next frame constructs one,
\* never an instance from before the switch with its used resources and
\* cooldowns.
C36_OneFreshAgent ==
    /\ [](~(robot.present /\ ufo.present))
    /\ [][currentWeapon' # currentWeapon
            => /\ currentWeapon' = "robot" => robot' \in {NewRobot, NoAgent}
               /\ currentWeapon' = "ufo" => ufo' \in {NewUFO, NoAgent}
         ]_vars

----------------------------------------------------------------------------
(* The two forearm lasers of Robot.update in milliseconds.  In SpecArms    *)
(* the clock now counts milliseconds and Date.now() is DateOrigin + now;  *)
(* the rest of the frame is left out.                                      *)

ArmCooldown == 200       \* currentTime - this.rightArmCooldown > 200
DateOrigin == 1000
ArmHorizon == 260
FrameTimes == {16, 17}   \* milliseconds between two animation frames

\* new RobotHandLaser(...) pushed for one arm
ArmBeam(side, date) == [side |-> side, startTime |-> date]

\* the arm-laser blocks of Robot.update: the timestamp gate of each arm,
\* then the per-frame decrement and the counter gate of each arm
armLasers(r, controls, date) ==
    LET rightFirst == /\ controls.rightArmFire
                      /\ date - r.rightArmCooldown > ArmCooldown
        right1 == IF rightFirst THEN date ELSE r.rightArmCooldown
        leftFirst == /\ controls.leftArmFire
                     /\ date - r.leftArmCooldown > ArmCooldown
        left1 == IF leftFirst THEN date ELSE r.leftArmCooldown
        left2 == IF left1 > 0 THEN left1 - 1 ELSE left1
        leftSecond == controls.leftArmFire /\ left2 <= 0
        right2 == IF right1 > 0 THEN right1 - 1 ELSE right1
        rightSecond == controls.rightArmFire /\ right2 <= 0
        Arm(side, fired) == IF fired THEN << ArmBeam(side, date) >>
                            ELSE << >>
    IN  [ robot |-> [r EXCEPT
              !.rightArmCooldown =
                  IF rightSecond THEN ArmFireRate ELSE right2,
              !.leftArmCooldown =
                  IF leftSecond THEN ArmFireRate ELSE left2],
          beams |-> Arm("right", rightFirst) \o Arm("left", leftFirst)
                      \o Arm("left", leftSecond)
                      \o Arm("right", rightSecond) ]

\* the Robot that the failsafe of gameLoop constructs
RobotAtStart ==
    [NewRobot EXCEPT !.rightArmCooldown = 0, !.leftArmCooldown = 0]

\* one frame of robot mode, dt milliseconds after the last one
ArmTick(dt) ==
    /\ currentWeapon = "robot"
    /\ now + dt <= ArmHorizon
    /\ now' = now + dt
    /\ LET r == IF robot.present THEN robot ELSE RobotAtStart
           res == armLasers(r, robotControls, DateOrigin + now')
       IN  /\ robot' = res.robot
           /\ robotHandLasers' = robotHandLasers \o res.beams
    /\ dispatched' = FALSE
    /\ UNCHANGED << cityEpoch, currentWeapon, currentCityId, buildings,
                    stickyBombs, meteors, bombs, robotMissiles, particles,
                    voxelBits, bridgeDebris, buildingDebris, microDebris,
                    dustParticles, bridge, waterWaves, robotControls,
                    ufo, ufoControls, targeted, evicted, lasers, tornados,
                    ufoHandLasers, pointerActive, pointerPosition >>

NextArms ==
    \/ SelectWeapon("robot")
    \/ \E side \in {"left", "right"}, held \in BOOLEAN : KeyArm(side, held)
    \/ \E dt \in FrameTimes : ArmTick(dt)

SpecArms == Init /\ [][NextArms]_vars

\* the beams of one arm in a list of beams
BeamsOf(side, beams) == SelectSeq(beams, LAMBDA b : b.side = side)

OtherHeld(controls, side) ==
    IF side = "left" THEN [controls EXCEPT !.rightArmFire = ~@]
    ELSE [controls EXCEPT !.leftArmFire = ~@]

ArmCooldownOf(r, side) ==
    IF side = "left" THEN r.leftArmCooldown ELSE r.rightArmCooldown

\* C37: in every frame each arm emits at most one beam, emits none less
\* than its cooldown of 200 ms after its previous beam, and ends the frame
\* with the cooldown it would have if the other arm's key were in the
\* other position.
C37_ArmsGatedApart ==
    [][\A dt \in FrameTimes : ArmTick(dt) /\ robot.present
          => \A side \in {"left", "right"} :
                 LET before == BeamsOf(side, robotHandLasers)
                     after == BeamsOf(side, robotHandLasers')
                 IN  /\ Len(after) <= Len(before) + 1
                     /\ Len(after) > Len(before)
                        => \A k \in 1 .. Len(before) :
                               before[k].startTime + ArmCooldown
                                   <= DateOrigin + now'
                     /\ ArmCooldownOf(robot', side)
                            = ArmCooldownOf(
                                  armLasers(robot,
                                            OtherHeld(robotControls, side),
                                            DateOrigin + now').robot, side)
      ]_vars

----------------------------------------------------------------------------
\* C38: no sticky bomb is attached to a building that is collapsing or
\* collapsed: every bomb that holds a building of the list as its
\* attachment holds one whose state is alive.
C38_NoBombOnFallingBuilding ==
    \A n \in 1 .. Len(stickyBombs) : \A k \in 1 .. Len(buildings) :
        /\ stickyBombs[n].attachedBuildingRef # NULL
        /\ stickyBombs[n].attachedBuildingRef = buildings[k].id
        => buildings[k].state = "alive"

----------------------------------------------------------------------------
\* the sparks of an explosion may fly off the screen by more than 200 px
\* while they are in the air
OffscreenRnd ==
    { [r EXCEPT !.aloft = a] :
        r \in Rnd({FALSE}, {0}, {TRUE}, {2}, {3}, {NULL}, BOOLEAN, {FALSE}),
        a \in {{}, 1 .. SparkCount} }

OffscreenTick ==
    \E dt \in {FrameInterval, LongPause}, rnd \in OffscreenRnd :
        GameLoopUntil(dt, rnd, PoolMaxTime)

NextOffscreen ==
    \/ OffscreenTick
    \/ SelectWeapon("robot")
    \/ PoolKeyMissile

SpecOffscreen == Init /\ [][NextOffscreen]_vars

\* C39: every sleeping fragment of the particle, voxel-bit and
\* bridge-debris pools has a recorded settledTime, so the filter of the
\* over-cap marking lists every sleeping fragment.
C39_SleepersHaveSettledTime ==
    \A pool \in {particles, voxelBits, bridgeDebris} :
        \A k \in 1 .. Len(pool) :
            pool[k].sleeping
                => /\ pool[k].settledTime # NULL
                   /\ k \in Sleepers(pool)

----------------------------------------------------------------------------
\* C40: after every handler that calls takeDamage and after every tick, a
\* building whose state is alive has health above 0 and a building whose
\* state is collapsing or collapsed has health 0.
C40_HealthMatchesState ==
    \A k \in 1 .. Len(buildings) :
        /\ buildings[k].state = "alive" => buildings[k].health > 0
        /\ buildings[k].state \in {"collapsing", "collapsed"}
               => buildings[k].health = 0

\* a building that is collapsing has taken a further hit after its collapse
\* began, next to a building that is alive and damaged
C40_Witness ==
    \E k, j \in 1 .. Len(buildings) :
        /\ buildings[k].state = "collapsing"
        /\ buildings[k].lastHitTime > buildings[k].collapseStartTime
        /\ buildings[k].health = 0
        /\ buildings[j].state = "alive"
        /\ buildings[j].health < buildings[j].maxHealth

====
